---- MODULE Spec2Model ----
(***************************************************************************)
(* Model of the incremental semantic index of ObsidiAnswer:                *)
(*   IndexManager (src/src/index-manager.ts) and the indexing, scheduling  *)
(*   and search parts of RAGEngine (src/src/rag-engine.ts, lines 1-560).   *)
(*                                                                         *)
(* The program is single threaded JavaScript: code between two awaits runs *)
(* atomically, and every await is a point where another task may run.  One *)
(* action of the model is one such atomic segment: it starts where an      *)
(* awaited call resolves (or where an event handler is entered) and runs   *)
(* to the next await.                                                      *)
(*                                                                         *)
(* Abstractions, stated once:                                              *)
(*  - a document body is the sequence of its paragraph lengths; a chunk's  *)
(*    content is the sequence of the paragraph lengths joined in it;       *)
(*  - an embedding is identified by the text it was computed from;         *)
(*  - a TFile is the value of its path;                                    *)
(*  - getFileVersion (stat, then read) resolves in one step;                *)
(*  - saveIndex writes the index as it is when it is called, and the       *)
(*    await of a saveIndex that is followed by another await, with no      *)
(*    code between them that reads or writes the state, is one await;      *)
(*  - time is counted in ticks of one second;                              *)
(*  - settings.autoIndexOnChange is on and settings.debounceDelay is the   *)
(*    documented default, so initialize registers the four watchers.       *)
(***************************************************************************)
EXTENDS Integers, Sequences, FiniteSets, TLC

\* ------------------------------------------------------------------ bounds

\* The number of things the user and the content source do in one behaviour
\* (commands, settings changes, document changes, plugin reloads).
MaxEvents == 2

\* The number of paragraphs of a document that chunkDocument is tried on.
MaxParagraphs == 3

\* ------------------------------------------------------- program constants

\* chunkSize of chunkDocument, in characters.
ChunkSize == 1000

\* settings.debounceDelay in seconds (documented default 2000 ms).
DebounceDelay == 2

\* The paragraph separator "\n\n" has two characters.
SepLen == 2

\* settings.similarityThreshold (default 0.3), in ten-thousandths.
SimilarityThreshold == 3000

\* settings.maxResults (default 5).
MaxResults == 5

\* The context boost 1.2 and the unboosted factor 1.0, in tenths.
Boost == 12

NoBoost == 10

\* Similarities are computed in thousandths.
Scale == 1000

\* ------------------------------------------------------------- small sets

Paths == {"a.md", "b.md"}

\* vault.getMarkdownFiles() enumerates in this order.
PathOrder == <<"a.md", "b.md">>

\* Document bodies, as sequences of paragraph lengths.
Bodies == {<<400>>, <<600, 700>>}

EmbeddingModels == {"model-A", "model-B"}

Runs == {"run1"}

Batches == Runs \cup {"pass"}

NoVersion == [path |-> "", mtime |-> 0, size |-> 0, hash |-> 0]

NoEmbedding == <<>>

\* ---------------------------------------------------------------- helpers

RECURSIVE SumSeq(_)
SumSeq(s) == IF s = <<>> THEN 0 ELSE Head(s) + SumSeq(Tail(s))

\* Length of the string that joins the paragraphs of s with "\n\n".
StrLen(s) == IF s = <<>> THEN 0 ELSE SumSeq(s) + SepLen * (Len(s) - 1)

RemoveKeys(f, S) == [x \in DOMAIN f \ S |-> f[x]]

Range(s) == {s[i] : i \in DOMAIN s}

RECURSIVE FilterSeq(_, _)
FilterSeq(s, S) ==
    IF s = <<>> THEN <<>>
    ELSE IF Head(s) \in S THEN <<Head(s)>> \o FilterSeq(Tail(s), S)
    ELSE FilterSeq(Tail(s), S)

\* ------------------------------------------------------------- the chunker

\* One chunk draft of chunkDocument; addFileToIndex overwrites fileVersion.
MakeChunk(path, ord, paras) ==
    [id |-> <<path, ord>>,
     fileVersion |-> [path |-> path, mtime |-> 0, size |-> 0, hash |-> 0],
     content |-> paras,
     path |-> path,
     chunkIndex |-> ord,
     totalChunks |-> 0,
     embedding |-> NoEmbedding,
     embeddingModel |-> ""]

\* The paragraph loop of chunkDocument: cur is currentChunk, ord chunkIndex.
RECURSIVE ChunkLoop(_, _, _, _)
ChunkLoop(path, paras, cur, ord) ==
    IF paras = <<>>
    THEN IF cur # <<>> THEN <<MakeChunk(path, ord, cur)>> ELSE <<>>
    ELSE IF StrLen(cur) + Head(paras) > ChunkSize /\ StrLen(cur) > 0
         THEN <<MakeChunk(path, ord, cur)>>
              \o ChunkLoop(path, Tail(paras), <<Head(paras)>>, ord + 1)
         ELSE ChunkLoop(path, Tail(paras), cur \o <<Head(paras)>>, ord)

\* chunkDocument without its final pass over the chunks.
ChunkDocument_NoTotal(body, path) ==
    ChunkLoop(path, SelectSeq(body, LAMBDA n : n > 0), <<>>, 0)

\* chunkDocument: blank paragraphs are filtered out, totalChunks is set last.
ChunkDocument(body, path) ==
    LET paras == SelectSeq(body, LAMBDA n : n > 0)
        drafts == ChunkLoop(path, paras, <<>>, 0)
    IN [i \in DOMAIN drafts |-> [drafts[i] EXCEPT !.totalChunks = Len(drafts)]]

\* --------------------------------------------------------- the index store

\* hashContent: hash = ((hash << 5) - hash) + char, that is hash * 31 + char;
\* the characters of a body are its paragraph lengths.  The bodies of the
\* model are short enough for the value to stay inside the 32 bits the code
\* folds it into, so the fold is the identity on them.
RECURSIVE HashFrom(_, _)
HashFrom(h, s) ==
    IF s = <<>> THEN h
    ELSE HashFrom(h * 31 + Head(s), Tail(s))

HashContent(body) == HashFrom(0, body)

CreateEmptyIndex(model) ==
    [version |-> "1.0.0",
     settings |-> [embeddingModel |-> model],
     files |-> <<>>,
     chunks |-> <<>>,
     stats |-> [totalFiles |-> 0, totalChunks |-> 0, totalEmbeddings |-> 0,
                lastFullIndex |-> 0]]

UpdateStats(idx) ==
    [idx EXCEPT !.stats =
        [totalFiles |-> Cardinality(DOMAIN idx.files),
         totalChunks |-> Cardinality(DOMAIN idx.chunks),
         totalEmbeddings |->
            Cardinality({id \in DOMAIN idx.chunks :
                            idx.chunks[id].embedding # NoEmbedding}),
         lastFullIndex |-> idx.stats.lastFullIndex]]

ChunkIdsOf(idx, path) ==
    {id \in DOMAIN idx.chunks : idx.chunks[id].fileVersion.path = path}

\* removeFileFromIndex that deletes the file entry and leaves its chunks.
RemoveFileFromIndex_KeepChunks(idx, path) ==
    UpdateStats([idx EXCEPT !.files = RemoveKeys(@, {path})])

\* removeFileFromIndex that drops every chunk, whatever its filePath.
RemoveFileFromIndex_AllChunks(idx, path) ==
    UpdateStats([idx EXCEPT !.files = RemoveKeys(@, {path}),
                            !.chunks = RemoveKeys(@, DOMAIN @)])

\* removeFileFromIndex up to its await of saveIndex.
RemoveFileFromIndex(idx, path) ==
    UpdateStats([idx EXCEPT !.files = RemoveKeys(@, {path}),
                            !.chunks = RemoveKeys(@, ChunkIdsOf(idx, path))])

\* addFileToIndex that stores the chunks and no file entry.
AddFileToIndex_ChunksOnly(idx, fv, cs) ==
    LET stamped == [i \in DOMAIN cs |-> [cs[i] EXCEPT !.fileVersion = fv]]
        added == [id \in {stamped[i].id : i \in DOMAIN stamped} |->
                    LET i == CHOOSE j \in DOMAIN stamped : stamped[j].id = id
                    IN stamped[i]]
    IN UpdateStats([idx EXCEPT !.chunks = added @@ @])

\* addFileToIndex that stores the chunks as chunkDocument made them, without
\* the file version.
AddFileToIndex_Unstamped(idx, fv, cs) ==
    LET added == [id \in {cs[i].id : i \in DOMAIN cs} |->
                    LET i == CHOOSE j \in DOMAIN cs : cs[j].id = id
                    IN cs[i]]
    IN UpdateStats([idx EXCEPT !.files = (fv.path :> fv) @@ @,
                               !.chunks = added @@ @])

\* addFileToIndex from the return of removeFileFromIndex to the await of
\* saveIndex: the file version is stored, every chunk is stamped with it.
AddFileToIndex(idx, fv, cs) ==
    LET stamped == [i \in DOMAIN cs |-> [cs[i] EXCEPT !.fileVersion = fv]]
        added == [id \in {stamped[i].id : i \in DOMAIN stamped} |->
                    LET i == CHOOSE j \in DOMAIN stamped : stamped[j].id = id
                    IN stamped[i]]
    IN UpdateStats([idx EXCEPT !.files = (fv.path :> fv) @@ @,
                               !.chunks = added @@ @])

\* updateChunkEmbedding that does not call updateStats.
UpdateChunkEmbedding_NoStats(idx, id, emb, model) ==
    IF id \in DOMAIN idx.chunks
    THEN [idx EXCEPT !.chunks[id].embedding = emb,
                     !.chunks[id].embeddingModel = model]
    ELSE idx

\* updateChunkEmbedding that attaches the vector and not the model's name.
UpdateChunkEmbedding_KeepsModel(idx, id, emb, model) ==
    IF id \in DOMAIN idx.chunks
    THEN UpdateStats([idx EXCEPT !.chunks[id].embedding = emb])
    ELSE idx

\* updateChunkEmbedding up to its await of saveIndex.
UpdateChunkEmbedding(idx, id, emb, model) ==
    IF id \in DOMAIN idx.chunks
    THEN UpdateStats([idx EXCEPT !.chunks[id].embedding = emb,
                                 !.chunks[id].embeddingModel = model])
    ELSE idx

\* rebuildIndex up to its await of saveIndex.
RebuildIndex(model) ==
    [CreateEmptyIndex(model) EXCEPT !.stats.lastFullIndex = 1]


\* validateIndex that looks at the version alone.
NeedsRebuild_VersionOnly(idx, model) == idx.version # "1.0.0"

\* validateIndex's needsRebuild: the version is not the recognised one, or the
\* stored index holds embeddings and was built with another model.
\* validateIndex that rebuilds on any change of the model, embeddings or not.
NeedsRebuild_AnyModelChange(idx, model) ==
    \/ idx.version # "1.0.0"
    \/ idx.settings.embeddingModel # model

NeedsRebuild(idx, model) ==
    LET hasEmbeddings == idx.stats.totalEmbeddings > 0
    IN \/ idx.version # "1.0.0"
       \/ hasEmbeddings /\ idx.settings.embeddingModel # model

\* validateIndex: rebuild, or adopt the configured model.
ValidateIndex(idx, model) ==
    IF NeedsRebuild(idx, model) THEN RebuildIndex(model)
    ELSE [idx EXCEPT !.settings = [embeddingModel |-> model]]

\* saveIndex: JSON.stringify of the index, written to vault-index.json.
SaveIndex(idx) == <<idx>>

\* The embedding the provider returns for a text.
Embed(text) == <<text>>

\* The index an earlier session leaves in vault-index.json after it indexed
\* and embedded a.md (one paragraph of 400 characters, mtime 1) with model-A.
PreviousIndex ==
    LET fv == [path |-> "a.md", mtime |-> 1, size |-> StrLen(<<400>>),
               hash |-> HashContent(<<400>>)]
        added == AddFileToIndex(CreateEmptyIndex("model-A"), fv,
                                ChunkDocument(<<400>>, "a.md"))
    IN UpdateChunkEmbedding(added, <<"a.md", 0>>, Embed(<<400>>), "model-A")

\* The bodies of a document in a stored index; <<>>: the document is not in it.
StoredBodies == {<<>>, <<400>>, <<600, 700>>}

StoredVersions == {"1.0.0", "0.9.0"}

RECURSIVE EmbedAll(_, _, _)
EmbedAll(idx, cs, model) ==
    IF cs = <<>> THEN idx
    ELSE EmbedAll(UpdateChunkEmbedding(idx, Head(cs).id,
                                       Embed(Head(cs).content), model),
                  Tail(cs), model)

\* The index after the documents docs (path -> body) were indexed in the
\* order of paths, with every chunk embedded when embedded is TRUE.
RECURSIVE IndexOf(_, _, _, _)
IndexOf(idx, paths, docs, embedded) ==
    IF paths = <<>> THEN idx
    ELSE LET p == Head(paths)
             fv == [path |-> p, mtime |-> 1, size |-> StrLen(docs[p]),
                    hash |-> HashContent(docs[p])]
             cs == ChunkDocument(docs[p], p)
             added == AddFileToIndex(idx, fv, cs)
             done == IF embedded
                     THEN EmbedAll(added, cs, idx.settings.embeddingModel)
                     ELSE added
         IN IndexOf(IF docs[p] = <<>> THEN idx ELSE done, Tail(paths), docs,
                    embedded)

\* The files vault-index.json can hold when the plugin is loaded: what an
\* earlier session (of this or of an earlier format version) saved.
StoredIndexes ==
    {[IndexOf(CreateEmptyIndex(m), PathOrder, docs, embedded)
        EXCEPT !.version = v] :
        v \in StoredVersions, m \in EmbeddingModels,
        docs \in [Paths -> StoredBodies], embedded \in BOOLEAN}

\* ------------------------------------------------------------------ state

VARIABLES
    vault,          \* the content source: path -> [exists, mtime, body]
    settings,       \* the settings object shared by plugin, engine and store
    index,          \* IndexManager.index
    persisted,      \* vault-index.json: <<>> when absent, else <<index>>
    isInitialized,  \* RAGEngine.isInitialized
    watching,       \* the handlers of setupFileWatching are registered
    pendingFiles,   \* RAGEngine.pendingFiles, in insertion order
    debounceTimer,  \* -1: no timer armed; else seconds since it was armed
    isIndexing,     \* RAGEngine.isIndexing
    batch,          \* per batch: the await it is suspended at and its locals
    search,         \* the search in flight: its await and its locals
    last,           \* history: the handler that ran last
    sinceNotify,    \* history: seconds since the latest scheduleFileIndex
    passCount,      \* history: passes started since the latest scheduleFileIndex
    events          \* history: what the user and the content source did so far

vars == <<vault, settings, index, persisted, isInitialized, watching,
          pendingFiles,
          debounceTimer, isIndexing, batch, search, last, sinceNotify,
          passCount, events>>

IdleRec ==
    [pc |-> "idle", all |-> {}, todo |-> <<>>, queue |-> <<>>,
     prune |-> <<>>, chunks |-> <<>>, fv |-> NoVersion, k |-> 0]

IdleSearch == [pc |-> "idle", query |-> <<>>, context |-> "", chunks |-> <<>>]

\* A continuation of a batch leaves this in the history.
Step == [op |-> "step", path |-> "", hit |-> FALSE]

\* The phase of the last progress event a batch emits before it ends:
\* indexVault calls notifyProgress with phase 'complete' on each of its ways
\* out; processPendingFiles never calls notifyProgress.
ProgressAtEnd(b) == IF b = "pass" THEN "none" ELSE "complete"

\* What a continuation of batch b leaves in the history: when it was the
\* last one of the batch, whether a 'complete' progress event ended it.
StepOf(b, rec) ==
    IF rec.pc = "idle"
    THEN [op |-> "batchEnded", path |-> "",
          hit |-> ProgressAtEnd(b) = "complete"]
    ELSE Step

Init ==
    /\ vault \in [Paths -> {[exists |-> FALSE, mtime |-> 0, body |-> <<>>],
                            [exists |-> TRUE, mtime |-> 1, body |-> <<400>>]}]
    /\ settings = [embeddingModel |-> "model-A",
                   similarityThreshold |-> SimilarityThreshold,
                   maxResults |-> MaxResults,
                   apiKey |-> "key"]
    /\ index = CreateEmptyIndex("model-A")
    /\ persisted \in {<<>>, SaveIndex(PreviousIndex)}
    /\ isInitialized = FALSE
    /\ watching = FALSE
    /\ pendingFiles = <<>>
    /\ debounceTimer = -1
    /\ isIndexing = FALSE
    /\ batch = [b \in Batches |-> IdleRec]
    /\ search = IdleSearch
    /\ last = [op |-> "construct", path |-> "", hit |-> FALSE]
    /\ sinceNotify = DebounceDelay
    /\ passCount = 0
    /\ events = 0

\* ------------------------------------------------------ reading the vault

\* vault.getMarkdownFiles()
MarkdownFiles == FilterSeq(PathOrder, {p \in Paths : vault[p].exists})

\* getFileVersion of an existing document.
GetFileVersion(p) ==
    [path |-> p,
     mtime |-> vault[p].mtime,
     size |-> StrLen(vault[p].body),
     hash |-> HashContent(vault[p].body)]

\* isFileUpToDate that finds every document changed.
IsFileUpToDate_Never(idx, fv) == FALSE

\* isFileUpToDate, given the freshly computed version.
IsFileUpToDate(idx, fv) ==
    /\ fv.path \in DOMAIN idx.files
    /\ idx.files[fv.path].mtime = fv.mtime
    /\ idx.files[fv.path].size = fv.size
    /\ idx.files[fv.path].hash = fv.hash

\* Set.add on pendingFiles.
AddPending(pending, p) ==
    IF p \in Range(pending) THEN pending ELSE Append(pending, p)

\* setTimeout without clearTimeout: a timer that is running is kept.
ArmTimer_NoReset(t) == IF t >= 0 THEN t ELSE 0

\* setTimeout after clearTimeout: the new timer has run for 0 seconds.
ArmTimer(t) == 0

\* processPendingFiles skips the paths getAbstractFileByPath does not find.
RECURSIVE SkipMissing(_)
SkipMissing(q) ==
    IF q = <<>> THEN <<>>
    ELSE IF vault[Head(q)].exists THEN q ELSE SkipMissing(Tail(q))

\* The batch after its current document is done or has failed: a run goes on
\* with the next outdated document, a pass with the next pending path found.
AfterFile(b, rec) ==
    LET rest == Tail(rec.queue)
    IN IF b = "pass"
       THEN LET q == SkipMissing(rest)
            IN IF q = <<>> THEN IdleRec
               ELSE [IdleRec EXCEPT !.pc = "passUpToDate", !.queue = q]
       ELSE IF rest = <<>> THEN IdleRec
            ELSE [IdleRec EXCEPT !.pc = "read", !.queue = rest]

\* The batch after one chunk of the current document has been handled: the
\* embedding of the next chunk is requested, or the document is done.
AfterChunk(b, rec) ==
    IF rec.k < Len(rec.chunks)
    THEN [rec EXCEPT !.pc = "embedding", !.k = @ + 1]
    ELSE AfterFile(b, rec)

\* processPendingFiles without its finally: the guard stays as it is.
GuardAfter_NoFinally(b, rec) == isIndexing

\* The finally of processPendingFiles releases the guard when the pass ends.
GuardAfter(b, rec) ==
    IF b = "pass" /\ rec.pc = "idle" THEN FALSE ELSE isIndexing

\* getOutdatedFiles without its loop over the indexed paths.
AfterCheck_NoPrune(rec, idx) ==
    [rec |-> IF rec.queue = <<>> THEN IdleRec
             ELSE [IdleRec EXCEPT !.pc = "read", !.queue = rec.queue],
     idx |-> idx]

\* getOutdatedFiles after its freshness loop: the indexed paths that are not
\* in the enumeration are removed one by one (the first removal runs up to its
\* await of saveIndex); with nothing to remove, indexVault starts on the
\* outdated documents, or returns when there is none.
AfterCheck(rec, idx) ==
    LET gone == FilterSeq(PathOrder, DOMAIN idx.files \ rec.all)
    IN IF gone # <<>>
       THEN [rec |-> [rec EXCEPT !.pc = "pruneSave", !.todo = <<>>,
                                 !.prune = Tail(gone)],
             idx |-> RemoveFileFromIndex(idx, Head(gone))]
       ELSE [rec |-> IF rec.queue = <<>> THEN IdleRec
                     ELSE [IdleRec EXCEPT !.pc = "read", !.queue = rec.queue],
             idx |-> idx]

\* llmProvider.isConfigured(): the provider has its API key (or base URL).
IsConfigured == settings.apiKey # ""

\* indexVault from its entry to its first await: without a configured
\* provider it returns at once; otherwise getOutdatedFiles enumerates the
\* documents and awaits the freshness check of the first one.
EnterIndexVault(idx) ==
    LET all == MarkdownFiles
    IN IF ~IsConfigured THEN [rec |-> IdleRec, idx |-> idx]
       ELSE IF all # <<>>
       THEN [rec |-> [IdleRec EXCEPT !.pc = "isUpToDate", !.all = Range(all),
                                     !.todo = all],
             idx |-> idx]
       ELSE AfterCheck(IdleRec, idx)

\* ------------------------------------------------- plugin load and settings

\* The ways a step of loadIndex can fail: the existence check, the read, the
\* JSON parse, the validation, or a saveIndex performed during the load.
Faults == {"none", "exists", "read", "parse", "validate", "save"}

\* A file a write did not complete holds a part of the text; it does not parse.
IsTorn(file) == Len(file) = 2

\* The try block of loadIndex on the file `stored` with the in-memory index
\* `cur`: whether it threw, this.index when it returned or threw, and the file.
LoadTry(cur, stored, model, fault) ==
    IF fault = "exists"
    THEN [threw |-> TRUE, index |-> cur, persisted |-> stored]
    ELSE IF stored = <<>>
    THEN IF fault = "save"
         THEN [threw |-> TRUE, index |-> CreateEmptyIndex(model),
               persisted |-> stored]
         ELSE [threw |-> FALSE, index |-> CreateEmptyIndex(model),
               persisted |-> SaveIndex(CreateEmptyIndex(model))]
    ELSE IF fault = "read" \/ fault = "parse" \/ IsTorn(stored)
    THEN [threw |-> TRUE, index |-> cur, persisted |-> stored]
    ELSE IF fault = "validate"
    THEN [threw |-> TRUE, index |-> stored[1], persisted |-> stored]
    ELSE IF NeedsRebuild(stored[1], model)
    THEN IF fault = "save"
         THEN [threw |-> TRUE, index |-> RebuildIndex(model),
               persisted |-> stored]
         ELSE [threw |-> FALSE, index |-> RebuildIndex(model),
               persisted |-> SaveIndex(RebuildIndex(model))]
    ELSE [threw |-> FALSE, index |-> ValidateIndex(stored[1], model),
          persisted |-> stored]

\* loadIndex without its catch: what the try block throws reaches the caller.
LoadIndex_NoCatch(cur, stored, model, fault) ==
    LET t == LoadTry(cur, stored, model, fault)
    IN [raised |-> t.threw, failed |-> t.threw, index |-> t.index,
        persisted |-> t.persisted]

\* loadIndex: the catch replaces the index by an empty one and returns.
LoadIndex(cur, stored, model, fault) ==
    LET t == LoadTry(cur, stored, model, fault)
    IN [raised |-> FALSE, failed |-> t.threw,
        index |-> IF t.threw THEN CreateEmptyIndex(model) ELSE t.index,
        persisted |-> t.persisted]

\* RAGEngine.initialize with the given failure inside loadIndex: when
\* loadIndex returns, isInitialized is set and the watchers are registered;
\* when it raises, initialize rejects before that.
Load(fault) ==
    /\ ~isInitialized
    /\ ~watching
    /\ LET r == LoadIndex(index, persisted, settings.embeddingModel, fault)
       IN /\ index' = r.index
          /\ persisted' = r.persisted
          /\ isInitialized' = ~r.raised
          /\ watching' = ~r.raised
          /\ last' = [op |-> IF r.raised THEN "initializeThrew"
                             ELSE IF r.failed THEN "initializeRecovered"
                             ELSE "initialize",
                      path |-> "", hit |-> FALSE]
    /\ UNCHANGED <<vault, settings, pendingFiles, debounceTimer, isIndexing,
                   batch, search, sinceNotify, passCount, events>>

\* RAGEngine.initialize: loadIndex, then the watchers are registered.
Initialize == Load("none")

\* The application is closed and started again: onunload (cleanup), then
\* onload in the new process constructs a new engine; taken when no task of
\* the old engine is in flight.
Restart ==
    /\ events < MaxEvents
    /\ isInitialized
    /\ \A b \in Batches : batch[b].pc = "idle"
    /\ search.pc = "idle"
    /\ index' = CreateEmptyIndex(settings.embeddingModel)
    /\ isInitialized' = FALSE
    /\ watching' = FALSE
    /\ pendingFiles' = <<>>
    /\ debounceTimer' = -1
    /\ isIndexing' = FALSE
    /\ events' = events + 1
    /\ last' = [op |-> "restart", path |-> "", hit |-> FALSE]
    /\ UNCHANGED <<vault, settings, persisted, batch, search, sinceNotify,
                   passCount>>

\* The settings tab sets settings.embeddingModel on the shared object and
\* calls saveSettings; nothing is re-indexed.
ChangeEmbeddingModel(m) ==
    /\ events < MaxEvents
    /\ isInitialized
    /\ m # settings.embeddingModel
    /\ settings' = [settings EXCEPT !.embeddingModel = m]
    /\ events' = events + 1
    /\ last' = [op |-> "changeModel", path |-> "", hit |-> FALSE]
    /\ UNCHANGED <<watching, vault, index, persisted, isInitialized, pendingFiles,
                   debounceTimer, isIndexing, batch, search, sinceNotify,
                   passCount>>

\* ------------------------------------------------------ change notifications

\* scheduleFileIndex
ScheduleFileIndex(p) ==
    /\ pendingFiles' = AddPending(pendingFiles, p)
    /\ debounceTimer' = ArmTimer(debounceTimer)
    /\ sinceNotify' = 0
    /\ passCount' = 0

\* scheduleFileRemoval that leaves the removal to a later pass.
ScheduleFileRemoval_Deferred(p) ==
    /\ index' = index
    /\ persisted' = persisted

\* scheduleFileRemoval whose removal is not followed by saveIndex.
ScheduleFileRemoval_Unsaved(p) ==
    /\ index' = RemoveFileFromIndex(index, p)
    /\ persisted' = persisted

\* scheduleFileRemoval: removeFileFromIndex runs at once, saveIndex included.
ScheduleFileRemoval(p) ==
    /\ index' = RemoveFileFromIndex(index, p)
    /\ persisted' = SaveIndex(index')

\* A document is created: the 'create' handler schedules it.
CreateFile(p, body) ==
    /\ events < MaxEvents
    /\ watching
    /\ ~vault[p].exists
    /\ vault' = [vault EXCEPT ![p] = [exists |-> TRUE, mtime |-> @.mtime + 1,
                                      body |-> body]]
    /\ ScheduleFileIndex(p)
    /\ events' = events + 1
    /\ last' = [op |-> "create", path |-> p, hit |-> FALSE]
    /\ UNCHANGED <<watching, settings, index, persisted, isInitialized, isIndexing,
                   batch, search>>

\* A document is written: the 'modify' handler schedules it.
ModifyFile(p, body) ==
    /\ events < MaxEvents
    /\ watching
    /\ vault[p].exists
    /\ vault' = [vault EXCEPT ![p] = [exists |-> TRUE, mtime |-> @.mtime + 1,
                                      body |-> body]]
    /\ ScheduleFileIndex(p)
    /\ events' = events + 1
    /\ last' = [op |-> "modify", path |-> p, hit |-> FALSE]
    /\ UNCHANGED <<watching, settings, index, persisted, isInitialized, isIndexing,
                   batch, search>>

\* A document is deleted: the 'delete' handler calls scheduleFileRemoval.
DeleteFile(p) ==
    /\ events < MaxEvents
    /\ watching
    /\ vault[p].exists
    /\ vault' = [vault EXCEPT ![p] = [exists |-> FALSE, mtime |-> @.mtime,
                                      body |-> <<>>]]
    /\ ScheduleFileRemoval(p)
    /\ events' = events + 1
    /\ last' = [op |-> "delete", path |-> p,
                hit |-> (p \in DOMAIN index.files \/ ChunkIdsOf(index, p) # {})]
    /\ UNCHANGED <<watching, settings, isInitialized, pendingFiles, debounceTimer,
                   isIndexing, batch, search, sinceNotify, passCount>>

\* A document is renamed: the 'rename' handler removes the old path at once
\* and schedules the new one.
RenameFile(p, q) ==
    /\ events < MaxEvents
    /\ watching
    /\ vault[p].exists
    /\ ~vault[q].exists
    /\ vault' = [vault EXCEPT ![q] = vault[p],
                              ![p] = [exists |-> FALSE, mtime |-> @.mtime,
                                      body |-> <<>>]]
    /\ ScheduleFileRemoval(p)
    /\ ScheduleFileIndex(q)
    /\ events' = events + 1
    /\ last' = [op |-> "rename", path |-> p,
                hit |-> (p \in DOMAIN index.files \/ ChunkIdsOf(index, p) # {})]
    /\ UNCHANGED <<watching, settings, isInitialized, isIndexing, batch, search>>

\* One second passes.
Tick ==
    /\ \/ debounceTimer >= 0 /\ debounceTimer < DebounceDelay
       \/ sinceNotify < DebounceDelay
    /\ debounceTimer' = IF debounceTimer >= 0 /\ debounceTimer < DebounceDelay
                        THEN debounceTimer + 1 ELSE debounceTimer
    /\ sinceNotify' = IF sinceNotify < DebounceDelay
                      THEN sinceNotify + 1 ELSE sinceNotify
    /\ UNCHANGED <<watching, vault, settings, index, persisted, isInitialized,
                   pendingFiles, isIndexing, batch, search, last, passCount,
                   events>>

\* -------------------------------------------------------------- indexVault

\* The 'index-vault' command or the startup auto-index calls indexVault.
StartIndexVault(b) ==
    /\ events < MaxEvents
    /\ isInitialized
    /\ batch[b].pc = "idle"
    /\ LET e == EnterIndexVault(index)
       IN /\ batch' = [batch EXCEPT ![b] = e.rec]
          /\ index' = e.idx
          /\ persisted' = IF e.rec.pc = "pruneSave" THEN SaveIndex(e.idx)
                          ELSE persisted
    /\ events' = events + 1
    /\ last' = [op |-> "indexVault", path |-> "", hit |-> FALSE]
    /\ UNCHANGED <<watching, vault, settings, isInitialized, pendingFiles,
                   debounceTimer, isIndexing, search, sinceNotify, passCount>>

\* The 'force-rebuild-index' command: forceRebuildIndex awaits rebuildIndex.
ForceRebuild(b) ==
    /\ events < MaxEvents
    /\ isInitialized
    /\ batch[b].pc = "idle"
    /\ index' = RebuildIndex(settings.embeddingModel)
    /\ persisted' = SaveIndex(index')
    /\ batch' = [batch EXCEPT ![b] = [IdleRec EXCEPT !.pc = "rebuildSave"]]
    /\ events' = events + 1
    /\ last' = [op |-> "forceRebuild", path |-> "", hit |-> FALSE]
    /\ UNCHANGED <<watching, vault, settings, isInitialized, pendingFiles,
                   debounceTimer, isIndexing, search, sinceNotify, passCount>>

\* rebuildIndex returns and forceRebuildIndex calls indexVault.
RebuildSaved(b) ==
    /\ batch[b].pc = "rebuildSave"
    /\ LET e == EnterIndexVault(index)
       IN /\ batch' = [batch EXCEPT ![b] = e.rec]
          /\ index' = e.idx
          /\ persisted' = IF e.rec.pc = "pruneSave" THEN SaveIndex(e.idx)
                          ELSE persisted
    /\ last' = Step
    /\ UNCHANGED <<watching, vault, settings, isInitialized, pendingFiles,
                   debounceTimer, isIndexing, search, sinceNotify, passCount,
                   events>>

\* How the promise of indexVault settles, given whether getOutdatedFiles (or
\* anything else outside the per-document try) threw: the outer catch logs,
\* shows a notice and returns, so the promise resolves either way and the
\* command callback goes on to 'Vault indexing completed!'.
IndexVaultSettles(threw) == "indexVaultResolved"

\* getOutdatedFiles: the freshness check of the next enumerated document
\* resolves.  Reading a document that was deleted meanwhile throws, and the
\* catch of indexVault ends the run.
CheckUpToDate(b) ==
    /\ batch[b].pc = "isUpToDate"
    /\ LET rec == batch[b]
           f == Head(rec.todo)
       IN IF ~vault[f].exists
          THEN /\ batch' = [batch EXCEPT ![b] = IdleRec]
               /\ last' = [op |-> IndexVaultSettles(TRUE), path |-> f,
                           hit |-> TRUE]
               /\ UNCHANGED <<index, persisted>>
          ELSE LET fresh == IsFileUpToDate(index, GetFileVersion(f))
                   rec2 == [rec EXCEPT !.todo = Tail(@),
                                       !.queue = IF fresh THEN @
                                                 ELSE Append(@, f)]
                   e == IF rec2.todo # <<>>
                        THEN [rec |-> rec2, idx |-> index]
                        ELSE AfterCheck(rec2, index)
               IN /\ batch' = [batch EXCEPT ![b] = e.rec]
                  /\ index' = e.idx
                  /\ persisted' = IF e.rec.pc = "pruneSave"
                                  THEN SaveIndex(e.idx) ELSE persisted
                  /\ last' = [op |-> "checked", path |-> f, hit |-> fresh]
    /\ UNCHANGED <<watching, vault, settings, isInitialized, pendingFiles,
                   debounceTimer, isIndexing, search, sinceNotify, passCount,
                   events>>

\* getOutdatedFiles: the removal of a vanished path returns; the next one is
\* removed, or indexVault starts on the outdated documents.
PruneSaved(b) ==
    /\ batch[b].pc = "pruneSave"
    /\ LET rec == batch[b]
       IN IF rec.prune # <<>>
          THEN /\ index' = RemoveFileFromIndex(index, Head(rec.prune))
               /\ persisted' = SaveIndex(index')
               /\ batch' = [batch EXCEPT ![b].prune = Tail(@)]
          ELSE /\ UNCHANGED <<index, persisted>>
               /\ batch' = [batch EXCEPT ![b] =
                              IF rec.queue = <<>> THEN IdleRec
                              ELSE [IdleRec EXCEPT !.pc = "read",
                                                   !.queue = rec.queue]]
    /\ last' = Step
    /\ UNCHANGED <<watching, vault, settings, isInitialized, pendingFiles,
                   debounceTimer, isIndexing, search, sinceNotify, passCount,
                   events>>

\* ---------------------------------------------------- processPendingFiles

\* processPendingFiles that does not look at the isIndexing guard.
TimerFire_NoGuard ==
    /\ debounceTimer >= DebounceDelay
    /\ debounceTimer' = -1
    /\ IF pendingFiles = <<>>
       THEN /\ last' = [op |-> "timerSkipped", path |-> "", hit |-> FALSE]
            /\ UNCHANGED <<pendingFiles, isIndexing, batch, passCount>>
       ELSE LET q == SkipMissing(pendingFiles)
                rec == IF q = <<>> THEN IdleRec
                       ELSE [IdleRec EXCEPT !.pc = "passUpToDate",
                                            !.queue = q]
            IN /\ pendingFiles' = <<>>
               /\ batch' = [batch EXCEPT !["pass"] = rec]
               /\ isIndexing' = (rec.pc # "idle")
               /\ passCount' = passCount + 1
               /\ last' = [op |-> "passStarted", path |-> "", hit |-> FALSE]
    /\ UNCHANGED <<watching, vault, settings, index, persisted, isInitialized, search,
                   sinceNotify, events>>

\* The debounce timer expires and calls processPendingFiles.  While a pass is
\* running (or with nothing pending) it returns at once; otherwise it takes
\* the guard, snapshots and clears the pending set, and awaits the freshness
\* check of the first snapshot path that still exists.
TimerFire ==
    /\ debounceTimer >= DebounceDelay
    /\ debounceTimer' = -1
    /\ IF isIndexing \/ pendingFiles = <<>>
       THEN /\ last' = [op |-> "timerSkipped", path |-> "", hit |-> FALSE]
            /\ UNCHANGED <<pendingFiles, isIndexing, batch, passCount>>
       ELSE LET q == SkipMissing(pendingFiles)
                rec == IF q = <<>> THEN IdleRec
                       ELSE [IdleRec EXCEPT !.pc = "passUpToDate",
                                            !.queue = q]
            IN /\ pendingFiles' = <<>>
               /\ batch' = [batch EXCEPT !["pass"] = rec]
               /\ isIndexing' = (rec.pc # "idle")
               /\ passCount' = passCount + 1
               /\ last' = [op |-> "passStarted", path |-> "", hit |-> FALSE]
    /\ UNCHANGED <<watching, vault, settings, index, persisted, isInitialized, search,
                   sinceNotify, events>>

\* processPendingFiles: the freshness check of the current path resolves; an
\* outdated document is handed to indexFile, a current one is skipped.
PassChecked ==
    /\ batch["pass"].pc = "passUpToDate"
    /\ LET rec == batch["pass"]
           f == Head(rec.queue)
           rec2 == IF vault[f].exists
                      /\ ~IsFileUpToDate(index, GetFileVersion(f))
                   THEN [rec EXCEPT !.pc = "read"]
                   ELSE AfterFile("pass", rec)
       IN /\ batch' = [batch EXCEPT !["pass"] = rec2]
          /\ isIndexing' = GuardAfter("pass", rec2)
    /\ last' = StepOf("pass", batch'["pass"])
    /\ UNCHANGED <<watching, vault, settings, index, persisted, isInitialized,
                   pendingFiles, debounceTimer, search, sinceNotify,
                   passCount, events>>

\* --------------------------------------------------------------- indexFile

\* indexFile: the read of the document resolves; it is chunked and handed to
\* addFileToIndex, which awaits getFileVersion.  Reading a document that no
\* longer exists throws; the batch catches it and goes on.
ReadFile(b) ==
    /\ batch[b].pc = "read"
    /\ LET rec == batch[b]
           f == Head(rec.queue)
           rec2 == IF vault[f].exists
                   THEN [rec EXCEPT !.pc = "fileVersion",
                                    !.chunks = ChunkDocument(vault[f].body, f)]
                   ELSE AfterFile(b, rec)
       IN /\ batch' = [batch EXCEPT ![b] = rec2]
          /\ isIndexing' = GuardAfter(b, rec2)
    /\ last' = StepOf(b, batch'[b])
    /\ UNCHANGED <<watching, vault, settings, index, persisted, isInitialized,
                   pendingFiles, debounceTimer, search, sinceNotify,
                   passCount, events>>

\* addFileToIndex: getFileVersion resolves and removeFileFromIndex is awaited.
GotFileVersion(b) ==
    /\ batch[b].pc = "fileVersion"
    /\ LET rec == batch[b]
           f == Head(rec.queue)
       IN IF vault[f].exists
          THEN /\ batch' = [batch EXCEPT ![b].pc = "removeSave",
                                         ![b].fv = GetFileVersion(f)]
               /\ index' = RemoveFileFromIndex(index, f)
               /\ persisted' = SaveIndex(index')
               /\ isIndexing' = isIndexing
          ELSE LET rec2 == AfterFile(b, rec)
               IN /\ batch' = [batch EXCEPT ![b] = rec2]
                  /\ isIndexing' = GuardAfter(b, rec2)
                  /\ UNCHANGED <<index, persisted>>
    /\ last' = StepOf(b, batch'[b])
    /\ UNCHANGED <<watching, vault, settings, isInitialized, pendingFiles,
                   debounceTimer, search, sinceNotify, passCount, events>>

\* addFileToIndex: removeFileFromIndex returns; the new file version and the
\* chunks are stored and saved, and indexFile asks the provider for the
\* embedding of its first chunk (a document without chunks is done).
RemoveSaved(b) ==
    /\ batch[b].pc = "removeSave"
    /\ index' = AddFileToIndex(index, batch[b].fv, batch[b].chunks)
    /\ persisted' = SaveIndex(index')
    /\ LET rec2 == AfterChunk(b, [batch[b] EXCEPT !.k = 0])
       IN /\ batch' = [batch EXCEPT ![b] = rec2]
          /\ isIndexing' = GuardAfter(b, rec2)
    /\ last' = StepOf(b, batch'[b])
    /\ UNCHANGED <<watching, vault, settings, isInitialized, pendingFiles,
                   debounceTimer, search, sinceNotify, passCount, events>>

\* generateEmbedding resolves (a provider without its key throws instead) and
\* updateChunkEmbedding attaches and saves the embedding (for an id that is
\* not in the index it does nothing); the next chunk is taken.
EmbeddingDone(b) ==
    /\ batch[b].pc = "embedding"
    /\ IsConfigured
    /\ LET rec == batch[b]
           chunk == rec.chunks[rec.k]
           rec2 == AfterChunk(b, rec)
       IN /\ index' = UpdateChunkEmbedding(index, chunk.id,
                          Embed(chunk.content), settings.embeddingModel)
          /\ persisted' = IF chunk.id \in DOMAIN index.chunks
                          THEN SaveIndex(index') ELSE persisted
          /\ batch' = [batch EXCEPT ![b] = rec2]
          /\ isIndexing' = GuardAfter(b, rec2)
    /\ last' = StepOf(b, batch'[b])
    /\ UNCHANGED <<watching, vault, settings, isInitialized, pendingFiles,
                   debounceTimer, search, sinceNotify, passCount, events>>

\* generateEmbedding throws: indexFile rethrows and the batch goes on with
\* its next document.
EmbeddingFailed(b) ==
    /\ batch[b].pc = "embedding"
    /\ LET rec2 == AfterFile(b, batch[b])
       IN /\ batch' = [batch EXCEPT ![b] = rec2]
          /\ isIndexing' = GuardAfter(b, rec2)
    /\ last' = StepOf(b, batch'[b])
    /\ UNCHANGED <<watching, vault, settings, index, persisted, isInitialized,
                   pendingFiles, debounceTimer, search, sinceNotify,
                   passCount, events>>

\* ------------------------------------------------------------------ search

\* Object.values(index.chunks) iterates in key order; the model takes the
\* order of the paths, then of the ordinals.
PathIndex(p) == CHOOSE i \in DOMAIN PathOrder : PathOrder[i] = p

Before(x, y) ==
    \/ PathIndex(x[1]) < PathIndex(y[1])
    \/ PathIndex(x[1]) = PathIndex(y[1]) /\ x[2] < y[2]

RECURSIVE OrderIds(_)
OrderIds(S) ==
    IF S = {} THEN <<>>
    ELSE LET m == CHOOSE x \in S : \A y \in S \ {x} : Before(x, y)
         IN <<m>> \o OrderIds(S \ {m})

\* getChunksWithEmbeddings: every chunk that carries an embedding.
GetChunksWithEmbeddings(idx) ==
    LET ids == OrderIds(DOMAIN idx.chunks)
        all == [i \in DOMAIN ids |-> idx.chunks[ids[i]]]
    IN SelectSeq(all, LAMBDA c : c.embedding # NoEmbedding)

\* The vector the provider computes for a text.
ProviderVector(text) == <<(Head(text) \div 100) - 5, Len(text)>>

Dot(a, b) == a[1] * b[1] + a[2] * b[2]

\* The largest r in lo..hi with r * r <= n.
RECURSIVE ISqrtIn(_, _, _)
ISqrtIn(n, lo, hi) ==
    IF lo >= hi THEN lo
    ELSE LET mid == (lo + hi + 1) \div 2
         IN IF mid * mid <= n THEN ISqrtIn(n, mid, hi)
            ELSE ISqrtIn(n, lo, mid - 1)

ISqrt(n) == ISqrtIn(n, 0, 46340)

\* cosineSimilarity, in thousandths; a zero magnitude makes it NaN.
IsNaN(a, b) == Dot(a, a) * Dot(b, b) = 0

CosineSimilarity(a, b) ==
    (Dot(a, b) * Scale * Scale) \div ISqrt(Dot(a, a) * Dot(b, b) * Scale * Scale)

\* results.sort((a, b) => b.similarity - a.similarity): stable, descending.
RECURSIVE InsertDesc(_, _)
InsertDesc(sorted, r) ==
    IF sorted = <<>> THEN <<r>>
    ELSE IF Head(sorted).similarity >= r.similarity
         THEN <<Head(sorted)>> \o InsertDesc(Tail(sorted), r)
         ELSE <<r>> \o sorted

RECURSIVE SortDesc(_)
SortDesc(rs) ==
    IF rs = <<>> THEN <<>>
    ELSE InsertDesc(SortDesc(SubSeq(rs, 1, Len(rs) - 1)), rs[Len(rs)])

\* search with the slice taken before the sort.
SearchResults_SliceFirst(cands, query, context, cfg) ==
    LET qv == ProviderVector(query)
        scored == [i \in DOMAIN cands |->
                     LET cv == ProviderVector(cands[i].embedding[1])
                     IN [chunk |-> cands[i],
                         nan |-> IsNaN(qv, cv),
                         similarity |->
                            IF IsNaN(qv, cv) THEN 0
                            ELSE CosineSimilarity(qv, cv)
                                 * (IF context # "" /\ cands[i].path = context
                                    THEN Boost ELSE NoBoost)]]
        kept == SelectSeq(scored, LAMBDA r :
                    ~r.nan /\ r.similarity >= cfg.similarityThreshold)
    IN SortDesc(SubSeq(kept, 1, IF Len(kept) < cfg.maxResults THEN Len(kept)
                                ELSE cfg.maxResults))

\* The part of search after the query embedding has arrived: every candidate
\* is scored (times 1.2 for a chunk of the context file), kept when it
\* reaches the threshold, and the best maxResults are returned.  The
\* adjusted similarity is in ten-thousandths.
SearchResults(cands, query, context, cfg) ==
    LET qv == ProviderVector(query)
        scored == [i \in DOMAIN cands |->
                     LET cv == ProviderVector(cands[i].embedding[1])
                     IN [chunk |-> cands[i],
                         nan |-> IsNaN(qv, cv),
                         similarity |->
                            IF IsNaN(qv, cv) THEN 0
                            ELSE CosineSimilarity(qv, cv)
                                 * (IF context # "" /\ cands[i].path = context
                                    THEN Boost ELSE NoBoost)]]
        kept == SelectSeq(scored, LAMBDA r :
                    ~r.nan /\ r.similarity >= cfg.similarityThreshold)
        sorted == SortDesc(kept)
    IN SubSeq(sorted, 1, IF Len(sorted) < cfg.maxResults THEN Len(sorted)
                         ELSE cfg.maxResults)

Queries == {<<400>>}

Contexts == {"", "a.md"}

\* search without the check for an empty set of embedded chunks.
SearchStart_NoCheck(query, context) ==
    /\ events < MaxEvents
    /\ events' = events + 1
    /\ isInitialized
    /\ search.pc = "idle"
    /\ search' = [pc |-> "embedding", query |-> query, context |-> context,
                  chunks |-> GetChunksWithEmbeddings(index)]
    /\ last' = [op |-> "search", path |-> "", hit |-> FALSE]
    /\ UNCHANGED <<watching, vault, settings, index, persisted, isInitialized,
                   pendingFiles, debounceTimer, isIndexing, batch,
                   sinceNotify, passCount>>

\* search is called: with no embedded chunk it throws at once; otherwise it
\* keeps the embedded chunks and awaits the embedding of the query.
SearchStart(query, context) ==
    /\ events < MaxEvents
    /\ events' = events + 1
    /\ isInitialized
    /\ search.pc = "idle"
    /\ LET cands == GetChunksWithEmbeddings(index)
       IN IF cands = <<>>
          THEN /\ search' = search
               /\ last' = [op |-> "searchThrew", path |-> "", hit |-> FALSE]
          ELSE /\ search' = [pc |-> "embedding", query |-> query,
                             context |-> context, chunks |-> cands]
               /\ last' = [op |-> "search", path |-> "", hit |-> FALSE]
    /\ UNCHANGED <<watching, vault, settings, index, persisted, isInitialized,
                   pendingFiles, debounceTimer, isIndexing, batch,
                   sinceNotify, passCount>>

\* The query embedding arrives (or the provider throws) and search returns.
SearchDone ==
    /\ search.pc = "embedding"
    /\ search' = IdleSearch
    /\ last' = Step
    /\ UNCHANGED <<watching, vault, settings, index, persisted, isInitialized,
                   pendingFiles, debounceTimer, isIndexing, batch,
                   sinceNotify, passCount, events>>

\* The result the search in flight returns when its query embedding arrives.
SearchOutcome ==
    SearchResults(search.chunks, search.query, search.context, settings)

\* ----------------------------------------------------------- specification

\* What the user and the content source do.
EnvNext ==
    \/ Restart
    \/ \E m \in EmbeddingModels : ChangeEmbeddingModel(m)
    \/ \E p \in Paths, body \in Bodies : CreateFile(p, body)
    \/ \E p \in Paths, body \in Bodies : ModifyFile(p, body)
    \/ \E p \in Paths : DeleteFile(p)
    \/ \E p \in Paths, q \in Paths : RenameFile(p, q)
    \/ \E b \in Runs : StartIndexVault(b)
    \/ \E b \in Runs : ForceRebuild(b)
    \/ \E query \in Queries, context \in Contexts : SearchStart(query, context)

\* What the engine does once its awaited calls resolve and time passes.
SysNext ==
    \/ Initialize
    \/ Tick
    \/ TimerFire
    \/ PassChecked
    \/ SearchDone
    \/ \E b \in Runs : RebuildSaved(b)
    \/ \E b \in Runs : CheckUpToDate(b)
    \/ \E b \in Runs : PruneSaved(b)
    \/ \E b \in Batches : ReadFile(b)
    \/ \E b \in Batches : GotFileVersion(b)
    \/ \E b \in Batches : RemoveSaved(b)
    \/ \E b \in Batches : EmbeddingDone(b)
    \/ \E b \in Batches : EmbeddingFailed(b)

Next == EnvNext \/ SysNext

Spec == Init /\ [][Next]_vars

\* Every awaited call resolves, time passes and an expired timer fires.
FairSpec == Spec /\ WF_vars(SysNext)

\* ------------------------------------------------------------------ claims

ActiveBatches == {b \in Batches : batch[b].pc # "idle"}

EmbeddedIds(idx) ==
    {id \in DOMAIN idx.chunks : idx.chunks[id].embedding # NoEmbedding}

\* C1: in every state, whatever the interleaving of removeFileFromIndex,
\* addFileToIndex, updateChunkEmbedding and rebuildIndex at their awaits,
\* stats.totalFiles is the number of entries of files, stats.totalChunks the
\* number of entries of chunks, and stats.totalEmbeddings the number of
\* chunks that carry an embedding.
C1_StatsMatchCounts ==
    /\ index.stats.totalFiles = Cardinality(DOMAIN index.files)
    /\ index.stats.totalChunks = Cardinality(DOMAIN index.chunks)
    /\ index.stats.totalEmbeddings = Cardinality(EmbeddedIds(index))

\* An indexVault run and a background pass are both suspended at an await
\* while the index holds chunks, one of them embedded.
C1_Witness ==
    /\ Cardinality(ActiveBatches) = 2
    /\ index.stats.totalChunks >= 1
    /\ index.stats.totalEmbeddings >= 1

C3_ContiguousOrdinals ==
    \A p \in Paths :
        LET ids == ChunkIdsOf(index, p)
            n == Cardinality(ids)
        IN /\ {index.chunks[id].chunkIndex : id \in ids} = 0 .. (n - 1)
           /\ \A id \in ids : index.chunks[id].totalChunks = n

\* C4: at most one reconciliation batch (indexVault run or processPendingFiles
\* pass) is between its start and its finish at any time.
C4_AtMostOneBatch == Cardinality(ActiveBatches) <= 1

\* A step in which processPendingFiles takes the guard and its snapshot.
PassStarts == passCount' = passCount + 1

\* A step in which the debounce timer expires (and no user event happens).
TimerExpires ==
    /\ debounceTimer >= DebounceDelay
    /\ debounceTimer' = -1
    /\ events' = events

NoDuplicate(s) == \A i, j \in DOMAIN s : s[i] = s[j] => i = j

C6_PendingEventuallySnapshotted ==
    \A p \in Paths :
        (p \in Range(pendingFiles)) ~> (p \notin Range(pendingFiles))

\* What removeFileFromIndex(p) has to leave behind, as a relation between the
\* index before and after the step that runs it.
RemovalLeaves(p) ==
    LET had == p \in DOMAIN index.files
        ids == ChunkIdsOf(index, p)
    IN /\ p \notin DOMAIN index'.files
       /\ ChunkIdsOf(index', p) = {}
       /\ index'.stats.totalFiles =
            index.stats.totalFiles - (IF had THEN 1 ELSE 0)
       /\ index'.stats.totalChunks = index.stats.totalChunks - Cardinality(ids)
       /\ (~had /\ ids = {})
          => /\ index'.files = index.files
             /\ index'.chunks = index.chunks
             /\ index'.stats = index.stats

\* The steps that run removeFileFromIndex(p): the delete and rename
\* handlers, addFileToIndex, and the pruning of getOutdatedFiles.
RemovalStep(p) ==
    \/ /\ events' = events + 1
       /\ last'.op \in {"delete", "rename"}
       /\ last'.path = p
    \/ \E b \in Batches :
        /\ batch[b].pc = "fileVersion"
        /\ batch'[b].pc = "removeSave"
        /\ Head(batch[b].queue) = p
    \/ \E b \in Runs :
        /\ batch[b].pc = "pruneSave"
        /\ batch[b].prune # <<>>
        /\ batch'[b].prune = Tail(batch[b].prune)
        /\ Head(batch[b].prune) = p
    \/ \E b \in Runs :
        /\ batch[b].pc # "pruneSave"
        /\ batch'[b].pc = "pruneSave"
        /\ Head(FilterSeq(PathOrder, DOMAIN index.files \ batch'[b].all)) = p

\* C7: for every path P, right after removeFileFromIndex(P) the index has no
\* file entry for P and no chunk of P, stats.totalFiles and stats.totalChunks
\* have gone down by exactly the number of entries removed, and when P was
\* not indexed the files, chunks and stats are unchanged.
C7_RemovalComplete ==
    [][\A p \in Paths : RemovalStep(p) => RemovalLeaves(p)]_vars

\* A delete notification has removed a document that was indexed, with no
\* pass running.
C7_Witness ==
    /\ last.op = "delete"
    /\ last.hit
    /\ ~isIndexing
    /\ last.path \notin DOMAIN index.files

\* C8: the step that handles a delete notification removes the path's file
\* entry and chunks from the in-memory index, whether or not a pass is
\* running, and touches neither the quiescence timer nor the pending set.
C8_DeleteImmediate ==
    [][\A p \in Paths :
          (events' = events + 1 /\ last'.op = "delete" /\ last'.path = p)
          => /\ p \notin DOMAIN index'.files
             /\ ChunkIdsOf(index', p) = {}
             /\ UNCHANGED <<debounceTimer, pendingFiles, isIndexing>>
      ]_vars

\* A delete notification has removed an indexed document while a pass is
\* running.
C8_Witness ==
    /\ last.op = "delete"
    /\ last.hit
    /\ isIndexing
    /\ batch["pass"].pc # "idle"

\* C9: in every reachable state every chunk that has an embedding has a
\* non-null embeddingModel equal to the embedding model configured now.
C9_EmbeddingModelCurrent ==
    \A id \in EmbeddedIds(index) :
        /\ index.chunks[id].embeddingModel # ""
        /\ index.chunks[id].embeddingModel = settings.embeddingModel

\* C10: search scores, and returns, no chunk whose embeddingModel differs
\* from the embedding model configured now.
C10_SearchExcludesStale ==
    search.pc = "embedding"
    => /\ \A i \in DOMAIN search.chunks :
            search.chunks[i].embeddingModel = settings.embeddingModel
       /\ \A i \in DOMAIN SearchOutcome :
            SearchOutcome[i].chunk.embeddingModel = settings.embeddingModel

\* C14: an indexVault run over documents that did not change since they were
\* indexed is a no-op: a document whose stored version is its current version
\* is not queued (so it is neither chunked again nor sent to the provider),
\* its file entry and chunks stay as they are, and a run that finds nothing
\* outdated and nothing to prune ends leaving the index and the file alone.
C14_IdempotentReindex ==
    [][\A b \in Runs :
        (batch[b].pc = "isUpToDate" /\ batch'[b] # batch[b])
        => LET f == Head(batch[b].todo)
           IN (/\ vault[f].exists
               /\ f \in DOMAIN index.files
               /\ index.files[f] = GetFileVersion(f))
              => /\ f \notin Range(batch'[b].queue)
                 /\ f \in DOMAIN index'.files
                 /\ index'.files[f] = index.files[f]
                 /\ \A id \in ChunkIdsOf(index, f) :
                        /\ id \in DOMAIN index'.chunks
                        /\ index'.chunks[id] = index.chunks[id]
                 /\ (/\ Len(batch[b].todo) = 1
                     /\ batch[b].queue = <<>>
                     /\ DOMAIN index.files \subseteq batch[b].all)
                    => /\ batch'[b] = IdleRec
                       /\ index' = index
                       /\ persisted' = persisted
      ]_vars

\* A second run has found the last document unchanged and has ended; every
\* chunk of the index is still embedded.
C14_Witness ==
    /\ last.op = "checked"
    /\ last.hit
    /\ events = 2
    /\ batch["run1"] = IdleRec
    /\ index.stats.totalChunks >= 1
    /\ index.stats.totalEmbeddings = index.stats.totalChunks

\* The documents that come after the current one in batch b and still exist.
LaterDocuments(b) ==
    LET rec == batch[b]
        later == IF rec.pc = "isUpToDate"
                 THEN Range(Tail(rec.todo)) \cup Range(rec.queue)
                 ELSE IF rec.pc = "pruneSave" THEN Range(rec.queue)
                 ELSE IF rec.pc = "rebuildSave" THEN {}
                 ELSE Range(Tail(rec.queue))
    IN {p \in later : vault[p].exists}

\* C15: a failure on one document does not end the batch: an indexVault run
\* or a pass ends only when no document that comes later in it is left.
C15_FailureKeepsBatchGoing ==
    [][\A b \in Batches :
        (batch[b].pc # "idle" /\ batch'[b].pc = "idle")
        => LaterDocuments(b) = {}
      ]_vars

\* Document f is indexed with a chunk that has no embedding.
LacksEmbedding(f) ==
    \E id \in ChunkIdsOf(index, f) : index.chunks[id].embedding = NoEmbedding

\* No batch is in indexFile for document f.
NotInProgress(f) ==
    \A b \in Batches :
        batch[b].pc \in {"read", "fileVersion", "removeSave", "embedding"}
        => Head(batch[b].queue) # f

\* C16: a document left with chunks that lack an embedding, after its
\* embedding call failed, is processed again by the next reconciliation: the
\* freshness check of a run queues it, the freshness check of a pass hands it
\* to indexFile.
C16_FailedEmbeddingRetried ==
    [][/\ \A b \in Runs :
            (batch[b].pc = "isUpToDate" /\ batch'[b] # batch[b])
            => LET f == Head(batch[b].todo)
               IN (vault[f].exists /\ LacksEmbedding(f) /\ NotInProgress(f))
                  => f \in Range(batch'[b].queue)
       /\ (batch["pass"].pc = "passUpToDate" /\ batch'["pass"] # batch["pass"])
          => LET f == Head(batch["pass"].queue)
             IN (vault[f].exists /\ LacksEmbedding(f) /\ NotInProgress(f))
                => batch'["pass"].pc = "read"
      ]_vars

\* C19: an error raised inside an interactively triggered indexVault reaches
\* its caller as a failed call: the call does not resolve normally (after
\* which the command reports completion) when an error ended the run.  In the
\* history, hit records that an error ended the run.
C19_ErrorReachesCaller ==
    last.op = "indexVaultResolved" => ~last.hit

\* C24: every batch, a manual or startup indexVault run as well as a
\* debounced background pass, ends with a progress event of phase
\* 'complete'.
C24_BatchEndsComplete ==
    last.op = "batchEnded" => last.hit

\* A step in which removeFileFromIndex, addFileToIndex, updateChunkEmbedding
\* or rebuildIndex changes the index (the load of initialize and the start
\* of a new session replace it by other means).
MutatedByOperation ==
    /\ index' # index
    /\ last'.op \notin {"initialize", "initializeRecovered", "restart"}

\* A step that continues where an awaited removeFileFromIndex or rebuildIndex
\* has returned.
OperationReturned ==
    \E b \in Batches :
        /\ batch[b].pc \in {"removeSave", "rebuildSave", "pruneSave"}
        /\ batch'[b] # batch[b]

\* C28: removeFileFromIndex, addFileToIndex, updateChunkEmbedding and
\* rebuildIndex save what they changed: the persisted index equals the
\* in-memory index (files, chunks, stats and settings) when the operation
\* has saved and when it returns; no mutation is left for a later flush.
C28_MutationsPersisted ==
    [][/\ MutatedByOperation => persisted' = SaveIndex(index')
       /\ OperationReturned => persisted = SaveIndex(index)]_vars

\* The embedding of a chunk has been attached while the pass was running,
\* and the file holds it.
C28_Witness ==
    /\ isIndexing
    /\ index.stats.totalEmbeddings >= 1
    /\ index.stats.totalChunks > index.stats.totalEmbeddings
    /\ persisted = SaveIndex(index)

\* C30: updateChunkEmbedding(id, vector) with an id that is not in chunks
\* returns without error and leaves files, chunks, stats and the persisted
\* index as they are; with a known id it sets that chunk's embedding to the
\* vector and its embeddingModel to the configured model and changes no
\* other chunk.
C30_UpdateOnlyKnownChunk ==
    [][\A b \in Batches :
          (batch[b].pc = "embedding" /\ batch'[b] # batch[b])
          => LET chunk == batch[b].chunks[batch[b].k]
                 id == chunk.id
                 returned == /\ batch'[b].pc = "embedding"
                             /\ batch'[b].k = batch[b].k + 1
             IN /\ id \notin DOMAIN index.chunks
                   => (index' = index /\ persisted' = persisted)
                /\ (id \in DOMAIN index.chunks /\ (returned \/ index' # index))
                   => /\ index'.chunks[id].embedding = Embed(chunk.content)
                      /\ index'.chunks[id].embeddingModel
                            = settings.embeddingModel
                      /\ index'.files = index.files
                      /\ DOMAIN index'.chunks = DOMAIN index.chunks
                      /\ \A o \in DOMAIN index.chunks \ {id} :
                            index'.chunks[o] = index.chunks[o]
      ]_vars

\* The pass was embedding the first chunk of a document when the document
\* was deleted; updateChunkEmbedding has returned for the chunk that is gone
\* and the pass has gone on to the second chunk.
C30_Witness ==
    /\ batch["pass"].pc = "embedding"
    /\ batch["pass"].k = 2
    /\ batch["run1"].pc = "idle"
    /\ events = 2
    /\ last.op = "step"
    /\ ~vault[Head(batch["pass"].queue)].exists
    /\ \A i \in DOMAIN batch["pass"].chunks :
          batch["pass"].chunks[i].id \notin DOMAIN index.chunks

\* C32: when the quiescence timer expires while a pass is running, the
\* expiry starts no second pass and leaves the pending set as it was.
C32_ExpiryDuringPassSkips ==
    [][(TimerExpires /\ isIndexing)
       => /\ pendingFiles' = pendingFiles
          /\ batch' = batch
          /\ passCount' = passCount
          /\ isIndexing']_vars

\* The timer has expired during a pass with a path pending; the path is
\* still pending and the pass goes on.
C32_Witness ==
    /\ last.op = "timerSkipped"
    /\ isIndexing
    /\ batch["pass"].pc # "idle"
    /\ pendingFiles # <<>>
    /\ debounceTimer = -1

\* The content of document p is the content it was indexed with.
ContentAsIndexed(p) ==
    /\ p \in DOMAIN index.files
    /\ index.files[p].size = StrLen(vault[p].body)
    /\ index.files[p].hash = HashContent(vault[p].body)

\* C33: a timer expiry with no pass running snapshots and clears the pending
\* set, and the pass re-indexes exactly the snapshot paths that still exist
\* and are not up to date when they are checked: a path whose content was
\* reverted to its indexed state within the window, or that exists no more,
\* is neither chunked again nor sent to the provider.
C33_PassIndexesOnlyChanged ==
    [][/\ (TimerExpires /\ ~isIndexing /\ pendingFiles # <<>>)
          => /\ pendingFiles' = <<>>
             /\ batch'["pass"].queue = SkipMissing(pendingFiles)
       /\ (batch["pass"].pc = "passUpToDate" /\ batch'["pass"] # batch["pass"])
          => LET f == Head(batch["pass"].queue)
                 indexed == /\ batch'["pass"].pc = "read"
                            /\ Head(batch'["pass"].queue) = f
             IN indexed <=> (vault[f].exists /\ ~ContentAsIndexed(f))
      ]_vars

\* C34: within one batch the documents are processed one at a time in the
\* order the content source enumerates them: the document in work is the
\* head of the batch's queue, the ones behind it wait, and the queue is in
\* enumeration order.
C34_EnumerationOrder ==
    \A b \in Batches :
        \A i, j \in DOMAIN batch[b].queue :
            i < j => PathIndex(batch[b].queue[i]) < PathIndex(batch[b].queue[j])

\* C36: in every reachable state every embedding stored on a chunk was
\* computed from that chunk's current content; the embedding requested for
\* an earlier version of a chunk with the same id is never attached to the
\* chunk another batch has stored since.
C36_EmbeddingOfCurrentContent ==
    \A id \in EmbeddedIds(index) :
        index.chunks[id].embedding = Embed(index.chunks[id].content)

\* Batch b is inside indexFile for p, at or after addFileToIndex's await of
\* removeFileFromIndex, and this step is the last one it spends on p.
ReconciliationEnds(b, p) ==
    /\ batch[b].pc \in {"removeSave", "embedding"}
    /\ Head(batch[b].queue) = p
    /\ \/ batch'[b].pc = "idle"
       \/ batch'[b].pc # "idle" /\ Head(batch'[b].queue) # p

\* No create, modify or rename notification has been handled so far: a
\* document that is gone from the vault was deleted.
NothingScheduled ==
    pendingFiles = <<>> /\ debounceTimer = -1 /\ passCount = 0

\* C37: when a delete notification for P was handled while a reconciliation
\* of P was in flight and P was not created again, the index holds no file
\* entry and no chunk of P once that reconciliation has finished.
C37_DeletedStaysRemoved ==
    [][\A b \in Runs, p \in Paths :
          (ReconciliationEnds(b, p) /\ ~vault[p].exists /\ NothingScheduled)
          => /\ p \notin DOMAIN index'.files
             /\ ChunkIdsOf(index', p) = {}
      ]_vars

\* C38: the isIndexing guard is released whenever a pass ends, whether its
\* documents succeeded or failed: in every state in which no pass is
\* executing isIndexing is false, and it is true while one is.
C38_GuardReleased ==
    isIndexing <=> batch["pass"].pc # "idle"

\* A pass has ended after the embedding of its document failed, and the
\* guard is released.
C38_Witness ==
    /\ last.op = "batchEnded"
    /\ ~last.hit
    /\ batch["pass"].pc = "idle"
    /\ batch["run1"].pc = "idle"
    /\ ~isIndexing
    /\ passCount = 1
    /\ \E id \in DOMAIN index.chunks : index.chunks[id].embedding = NoEmbedding

\* The step in which addFileToIndex(p) stores the file version and the chunks.
AdditionStep(p) ==
    \E b \in Batches :
        /\ batch[b].pc = "removeSave"
        /\ batch'[b].pc # "removeSave"
        /\ Head(batch[b].queue) = p

\* The file entry and the chunks of q are the same before and after the step.
EntriesKept(q) ==
    /\ (q \in DOMAIN index'.files) <=> (q \in DOMAIN index.files)
    /\ q \in DOMAIN index.files => index'.files[q] = index.files[q]
    /\ ChunkIdsOf(index', q) = ChunkIdsOf(index, q)
    /\ \A id \in ChunkIdsOf(index, q) : index'.chunks[id] = index.chunks[id]

\* C39: removeFileFromIndex(P) and addFileToIndex(P) leave the file entry and
\* every chunk of every other path Q # P as they were.
C39_OtherPathsUntouched ==
    [][\A p \in Paths :
          (RemovalStep(p) \/ AdditionStep(p))
          => \A q \in Paths \ {p} : EntriesKept(q)
      ]_vars

\* addFileToIndex(b.md), with its removeFileFromIndex(b.md), has just stored
\* b.md while the index holds a.md with an embedded chunk.
C39_Witness ==
    \E b \in Batches :
        /\ batch[b].pc = "embedding"
        /\ Head(batch[b].queue) = "b.md"
        /\ "b.md" \in DOMAIN index.files
        /\ ChunkIdsOf(index, "b.md") # {}
        /\ "a.md" \in DOMAIN index.files
        /\ \E id \in ChunkIdsOf(index, "a.md") :
              index.chunks[id].embedding # NoEmbedding

\* ------------------------------------------------- loadIndex on its inputs

\* The plugin is loaded over any stored file, with either model configured.
LoadInit ==
    /\ vault = [p \in Paths |-> [exists |-> TRUE, mtime |-> 1, body |-> <<400>>]]
    /\ settings \in {[embeddingModel |-> m,
                      similarityThreshold |-> SimilarityThreshold,
                      maxResults |-> MaxResults,
                      apiKey |-> "key"] : m \in EmbeddingModels}
    /\ index = CreateEmptyIndex(settings.embeddingModel)
    /\ persisted \in {<<>>} \cup {SaveIndex(st) : st \in StoredIndexes}
    /\ isInitialized = FALSE
    /\ watching = FALSE
    /\ pendingFiles = <<>>
    /\ debounceTimer = -1
    /\ isIndexing = FALSE
    /\ batch = [b \in Batches |-> IdleRec]
    /\ search = IdleSearch
    /\ last = [op |-> "construct", path |-> "", hit |-> FALSE]
    /\ sinceNotify = DebounceDelay
    /\ passCount = 0
    /\ events = 0

LoadNext == \E fault \in Faults : Load(fault)

LoadSpec == LoadInit /\ [][LoadNext]_vars

\* C11: loadIndex on an existing file rebuilds if and only if the stored
\* version is not the recognised one, or the stored model differs from the
\* configured one and the stored index holds an embedding.  After a rebuild
\* files and chunks are empty, the counts are zero, lastFullIndex is stamped
\* and settings.embeddingModel is the configured model; without a rebuild
\* the stored files, chunks and stats are kept.
C11_RebuildIffStale ==
    [][(last'.op = "initialize" /\ ~isInitialized /\ persisted # <<>>)
       => LET st == persisted[1]
              stale == \/ st.version # "1.0.0"
                       \/ /\ st.settings.embeddingModel # settings.embeddingModel
                          /\ EmbeddedIds(st) # {}
          IN /\ index'.settings.embeddingModel = settings.embeddingModel
             /\ IF stale
                THEN /\ index'.files = <<>>
                     /\ index'.chunks = <<>>
                     /\ index'.stats.totalFiles = 0
                     /\ index'.stats.totalChunks = 0
                     /\ index'.stats.totalEmbeddings = 0
                     /\ index'.stats.lastFullIndex > st.stats.lastFullIndex
                     /\ persisted' = SaveIndex(index')
                ELSE /\ index'.files = st.files
                     /\ index'.chunks = st.chunks
                     /\ index'.stats = st.stats
                     /\ persisted' = persisted
      ]_vars

\* A stored index with documents and embeddings of the other model has been
\* loaded and rebuilt.
C11_Witness ==
    /\ last.op = "initialize"
    /\ isInitialized
    /\ index.stats.lastFullIndex > 0
    /\ index.chunks = <<>>
    /\ persisted = SaveIndex(index)

\* C12: loadIndex never raises.  Whatever fails in it (existence check, read,
\* parse, validation, a save during the load), initialize goes on, and after
\* a failure the in-memory index is an empty index.
C12_LoadNeverRaises ==
    /\ last.op # "initializeThrew"
    /\ last.op \in {"initialize", "initializeRecovered"} => isInitialized
    /\ last.op = "initializeRecovered"
       => index = CreateEmptyIndex(settings.embeddingModel)

\* A load has failed on a file that holds embedded chunks, and returned.
C12_Witness ==
    /\ last.op = "initializeRecovered"
    /\ persisted # <<>>
    /\ EmbeddedIds(persisted[1]) # {}
    /\ index.chunks = <<>>

\* C26: loadIndex of a file of the recognized version that holds no
\* embedding and names another embedding model does not rebuild: files and
\* chunks are kept as they were persisted and settings.embeddingModel becomes
\* the configured model.
C26_NoEmbeddingsAdoptsModel ==
    [][(/\ last'.op = "initialize"
        /\ ~isInitialized
        /\ persisted # <<>>
        /\ persisted[1].version = "1.0.0"
        /\ EmbeddedIds(persisted[1]) = {}
        /\ persisted[1].settings.embeddingModel # settings.embeddingModel)
       => /\ index'.files = persisted[1].files
          /\ index'.chunks = persisted[1].chunks
          /\ index'.settings.embeddingModel = settings.embeddingModel
      ]_vars

\* A file with chunked documents, no embedding and the other model has been
\* loaded: its chunks are in memory under the configured model.
C26_Witness ==
    /\ last.op = "initialize"
    /\ isInitialized
    /\ persisted # <<>>
    /\ persisted[1].settings.embeddingModel # settings.embeddingModel
    /\ index.settings.embeddingModel = settings.embeddingModel
    /\ index.chunks # <<>>
    /\ index.chunks = persisted[1].chunks
    /\ EmbeddedIds(index) = {}

\* ------------------------------------------- loadIndex of a damaged file

\* Files in which the entry of one document is missing from files while its
\* chunks are there.
OrphanedIndexes ==
    {[st EXCEPT !.files = RemoveKeys(@, {p})] :
        st \in {x \in StoredIndexes : x.chunks # <<>>},
        p \in Paths}
    \ StoredIndexes

OrphanInit ==
    /\ vault = [p \in Paths |-> [exists |-> TRUE, mtime |-> 1, body |-> <<400>>]]
    /\ settings \in {[embeddingModel |-> m,
                      similarityThreshold |-> SimilarityThreshold,
                      maxResults |-> MaxResults,
                      apiKey |-> "key"] : m \in EmbeddingModels}
    /\ index = CreateEmptyIndex(settings.embeddingModel)
    /\ persisted \in {SaveIndex(st) : st \in OrphanedIndexes}
    /\ isInitialized = FALSE
    /\ watching = FALSE
    /\ pendingFiles = <<>>
    /\ debounceTimer = -1
    /\ isIndexing = FALSE
    /\ batch = [b \in Batches |-> IdleRec]
    /\ search = IdleSearch
    /\ last = [op |-> "construct", path |-> "", hit |-> FALSE]
    /\ sinceNotify = DebounceDelay
    /\ passCount = 0
    /\ events = 0

OrphanSpec == OrphanInit /\ [][LoadNext]_vars

\* C27: when the persisted index holds a chunk whose fileVersion.path has no
\* entry in files, that chunk is not in the in-memory index after loadIndex
\* has returned, and the stats count what is left.
C27_OrphansPrunedOnLoad ==
    last.op \in {"initialize", "initializeRecovered"}
    => /\ \A id \in DOMAIN index.chunks :
            index.chunks[id].fileVersion.path \in DOMAIN index.files
       /\ index.stats.totalFiles = Cardinality(DOMAIN index.files)
       /\ index.stats.totalChunks = Cardinality(DOMAIN index.chunks)

\* ------------------------------------------------- saveIndex and a crash

\* The indexes the running engine can hold: format 1.0.0, any documents.
LiveIndexes(model) ==
    {st \in StoredIndexes :
        st.version = "1.0.0" /\ st.settings.embeddingModel = model}

\* saveIndex: the index is serialised and adapter.write starts to write the
\* text over vault-index.json; until the write completes the file holds a
\* part of it.
SaveIndexWrite ==
    /\ isInitialized
    /\ ~IsTorn(persisted)
    /\ persisted' = <<index, "torn">>
    /\ last' = [op |-> "write", path |-> "", hit |-> FALSE]
    /\ UNCHANGED <<watching, vault, settings, index, isInitialized, pendingFiles,
                   debounceTimer, isIndexing, batch, search, sinceNotify,
                   passCount, events>>

\* adapter.write resolves: the file holds the whole text.
SaveIndexWritten ==
    /\ isInitialized
    /\ IsTorn(persisted)
    /\ persisted' = SaveIndex(persisted[1])
    /\ last' = [op |-> "written", path |-> "", hit |-> FALSE]
    /\ UNCHANGED <<watching, vault, settings, index, isInitialized, pendingFiles,
                   debounceTimer, isIndexing, batch, search, sinceNotify,
                   passCount, events>>

\* The application dies: the file stays as the write left it, and the next
\* start constructs a new engine.
Crash ==
    /\ isInitialized
    /\ index' = CreateEmptyIndex(settings.embeddingModel)
    /\ isInitialized' = FALSE
    /\ watching' = FALSE
    /\ last' = [op |-> "crash", path |-> "", hit |-> FALSE]
    /\ UNCHANGED <<vault, settings, persisted, pendingFiles, debounceTimer,
                   isIndexing, batch, search, sinceNotify, passCount, events>>

\* The engine runs with some index in memory over some complete file.
SaveInit ==
    /\ vault = [p \in Paths |-> [exists |-> TRUE, mtime |-> 1, body |-> <<400>>]]
    /\ settings = [embeddingModel |-> "model-A",
                   similarityThreshold |-> SimilarityThreshold,
                   maxResults |-> MaxResults,
                   apiKey |-> "key"]
    /\ index \in LiveIndexes(settings.embeddingModel)
    /\ persisted \in {SaveIndex(st) : st \in LiveIndexes(settings.embeddingModel)}
    /\ isInitialized = TRUE
    /\ watching = TRUE
    /\ pendingFiles = <<>>
    /\ debounceTimer = -1
    /\ isIndexing = FALSE
    /\ batch = [b \in Batches |-> IdleRec]
    /\ search = IdleSearch
    /\ last = [op |-> "initialize", path |-> "", hit |-> FALSE]
    /\ sinceNotify = DebounceDelay
    /\ passCount = 0
    /\ events = 0

SaveNext ==
    \/ SaveIndexWrite
    \/ SaveIndexWritten
    \/ Crash
    \/ Initialize

SaveSpec == SaveInit /\ [][SaveNext]_vars

\* C13: after a crash at any point of saveIndex, vault-index.json holds a
\* complete, parsable index (the one saved before, or the new one).
C13_CrashKeepsGoodCopy ==
    last.op = "crash" => ~IsTorn(persisted)

\* ------------------------------------------------------- plugin unload

\* The plugin is disabled while the application keeps running: onunload calls
\* cleanup, which clears the running timer and resets isInitialized.  The
\* handlers registered on the vault, the pending set and the tasks in flight
\* are left as they are.
Cleanup ==
    /\ events < MaxEvents
    /\ isInitialized
    /\ debounceTimer' = -1
    /\ isInitialized' = FALSE
    /\ events' = events + 1
    /\ last' = [op |-> "cleanup", path |-> "", hit |-> FALSE]
    /\ UNCHANGED <<vault, settings, index, persisted, watching, pendingFiles,
                   isIndexing, batch, search, sinceNotify, passCount>>

UnloadNext == Next \/ Cleanup

UnloadSpec == Init /\ [][UnloadNext]_vars

\* cleanup has run on this engine.
TornDown == watching /\ ~isInitialized

\* C17: after cleanup no quiescence timer is armed, no pass starts, and an
\* embedding call that was in flight at cleanup does not modify the index
\* when it completes.
C17_NothingAfterCleanup ==
    [][TornDown
       => /\ debounceTimer' = -1
          /\ ~PassStarts
          /\ \A b \in Batches :
                (batch[b].pc = "embedding" /\ batch'[b] # batch[b])
                => index' = index
      ]_vars

\* ------------------------------------------- provider without credentials

\* The plugin is loaded with no API key in the settings.
UnconfiguredInit ==
    /\ vault \in [Paths -> {[exists |-> FALSE, mtime |-> 0, body |-> <<>>],
                            [exists |-> TRUE, mtime |-> 1, body |-> <<400>>]}]
    /\ settings = [embeddingModel |-> "model-A",
                   similarityThreshold |-> SimilarityThreshold,
                   maxResults |-> MaxResults,
                   apiKey |-> ""]
    /\ index = CreateEmptyIndex("model-A")
    /\ persisted \in {<<>>, SaveIndex(PreviousIndex)}
    /\ isInitialized = FALSE
    /\ watching = FALSE
    /\ pendingFiles = <<>>
    /\ debounceTimer = -1
    /\ isIndexing = FALSE
    /\ batch = [b \in Batches |-> IdleRec]
    /\ search = IdleSearch
    /\ last = [op |-> "construct", path |-> "", hit |-> FALSE]
    /\ sinceNotify = DebounceDelay
    /\ passCount = 0
    /\ events = 0

\* The steps that can be taken while the provider has no credentials.
UnconfiguredNext ==
    \/ EnvNext
    \/ Initialize
    \/ Tick
    \/ TimerFire
    \/ PassChecked
    \/ SearchDone
    \/ \E b \in Runs : RebuildSaved(b)
    \/ \E b \in Batches : ReadFile(b)
    \/ \E b \in Batches : GotFileVersion(b)
    \/ \E b \in Batches : RemoveSaved(b)
    \/ \E b \in Batches : EmbeddingFailed(b)

UnconfiguredSpec == UnconfiguredInit /\ [][UnconfiguredNext]_vars

\* C18: while the provider is not configured, no step of an indexVault run or
\* of a background pass changes the chunks of the index, and none asks the
\* provider for an embedding.
C18_UnconfiguredRefuses ==
    [][(~IsConfigured /\ events' = events /\ batch' # batch)
       => /\ index'.chunks = index.chunks
          /\ \A b \in Batches : batch'[b].pc # "embedding"
      ]_vars

\* --------------------------------------------------- search on its inputs

\* The queries, context files and retrieval settings search is tried with;
\* the settings tab offers 1..20 results and thresholds 0..1 in steps of 0.05.
SearchQueries == {<<400>>, <<500>>, <<600>>, <<700>>}

SearchContexts == {"", "a.md", "b.md"}

MaxResultsChoices == {1, 2, MaxResults}

SimilarityThresholds == {0, SimilarityThreshold, 9500}

\* An initialized engine over any fully embedded index of the current model,
\* with any of the retrieval settings.
SearchInit ==
    /\ vault = [p \in Paths |-> [exists |-> FALSE, mtime |-> 0, body |-> <<>>]]
    /\ settings \in [embeddingModel : {"model-A"},
                     similarityThreshold : SimilarityThresholds,
                     maxResults : MaxResultsChoices,
                     apiKey : {"key"}]
    /\ index \in LiveIndexes("model-A")
    /\ persisted = SaveIndex(index)
    /\ isInitialized = TRUE
    /\ watching = TRUE
    /\ pendingFiles = <<>>
    /\ debounceTimer = -1
    /\ isIndexing = FALSE
    /\ batch = [b \in Batches |-> IdleRec]
    /\ search = IdleSearch
    /\ last = [op |-> "initialize", path |-> "", hit |-> FALSE]
    /\ sinceNotify = DebounceDelay
    /\ passCount = 0
    /\ events = 0

SearchNext ==
    \/ \E q \in SearchQueries, c \in SearchContexts : SearchStart(q, c)
    \/ SearchDone

SearchSpec == SearchInit /\ [][SearchNext]_vars

\* The adjusted similarity of the i-th embedded chunk of the search in
\* flight, in ten-thousandths, and whether it passes the threshold.
Adjusted(i) ==
    LET c == search.chunks[i]
    IN CosineSimilarity(ProviderVector(search.query),
                        ProviderVector(c.embedding[1]))
       * (IF search.context # "" /\ c.path = search.context
          THEN Boost ELSE NoBoost)

Passing ==
    {i \in DOMAIN search.chunks :
        /\ ~IsNaN(ProviderVector(search.query),
                  ProviderVector(search.chunks[i].embedding[1]))
        /\ Adjusted(i) >= settings.similarityThreshold}

\* j comes before i in the ranking: a higher adjusted similarity, or the
\* same one and an earlier place in the chunk iteration order.
Outranks(j, i) ==
    \/ Adjusted(j) > Adjusted(i)
    \/ Adjusted(j) = Adjusted(i) /\ j < i

Rank(i) == 1 + Cardinality({j \in Passing : Outranks(j, i)})

Returned ==
    IF Cardinality(Passing) < settings.maxResults THEN Cardinality(Passing)
    ELSE settings.maxResults

\* C20: search returns exactly the first maxResults elements of the chunks
\* whose adjusted similarity (times 1.2 for a chunk of the context file) is
\* at least the threshold, ordered by adjusted similarity descending with
\* ties in chunk iteration order; when only k < maxResults chunks pass,
\* exactly k results are returned.
C20_SearchTopRanked ==
    search.pc = "embedding"
    => /\ Len(SearchOutcome) = Returned
       /\ \A i \in Passing :
            Rank(i) <= Returned
            => /\ SearchOutcome[Rank(i)].chunk = search.chunks[i]
               /\ SearchOutcome[Rank(i)].similarity = Adjusted(i)

\* A search in which more chunks pass than maxResults allows, a chunk of the
\* context file is boosted past an earlier chunk, and two passing chunks tie.
C20_Witness ==
    /\ search.pc = "embedding"
    /\ Cardinality(Passing) > settings.maxResults
    /\ \E i, j \in Passing : i < j /\ Outranks(j, i)
    /\ \E i, j \in Passing : i < j /\ Adjusted(i) = Adjusted(j)
    /\ C20_SearchTopRanked

\* A search in which fewer chunks pass the threshold than maxResults.
C20_FewerThanMax ==
    /\ search.pc = "embedding"
    /\ Cardinality(Passing) \in 1 .. (settings.maxResults - 1)
    /\ Cardinality(Passing) < Len(search.chunks)

\* The raw cosine similarity of the i-th embedded chunk of the search in
\* flight, in thousandths, and its place in the result (0 when it is not in).
RawSimilarity(i) ==
    CosineSimilarity(ProviderVector(search.query),
                     ProviderVector(search.chunks[i].embedding[1]))

PlaceOf(i) ==
    IF \E k \in DOMAIN SearchOutcome :
          SearchOutcome[k].chunk = search.chunks[i]
    THEN CHOOSE k \in DOMAIN SearchOutcome :
            SearchOutcome[k].chunk = search.chunks[i]
    ELSE 0

\* C21: of two chunks with the same raw similarity, one of the context file
\* and one not, whenever the other chunk is in the result the context chunk
\* is in it too, at or before the other's place, whatever the similarity
\* (zero and negative included) and the threshold.
C21_BoostMonotone ==
    (search.pc = "embedding" /\ search.context # "")
    => \A i, j \in DOMAIN search.chunks :
          (/\ search.chunks[i].path = search.context
           /\ search.chunks[j].path # search.context
           /\ RawSimilarity(i) = RawSimilarity(j)
           /\ PlaceOf(j) > 0)
          => (PlaceOf(i) > 0 /\ PlaceOf(i) <= PlaceOf(j))

\* A step in which search is called.
SearchCalled ==
    events' = events + 1 /\ last'.op \in {"search", "searchThrew"}

\* C22: search called while no chunk of the index has an embedding throws
\* 'No embeddings found' at once: the provider is not asked for the query
\* embedding, and no result list, empty or not, is returned.
C22_NoEmbeddingsThrows ==
    [][(SearchCalled /\ GetChunksWithEmbeddings(index) = <<>>)
       => (last'.op = "searchThrew" /\ search'.pc = "idle")]_vars

\* search has thrown over an index that holds chunks, none of them embedded.
C22_Witness ==
    /\ last.op = "searchThrew"
    /\ search.pc = "idle"
    /\ index.stats.totalChunks > 0
    /\ GetChunksWithEmbeddings(index) = <<>>

\* -------------------------------------------- chunkDocument on its inputs

\* Paragraph lengths around chunkSize and its half (0 is a blank paragraph),
\* and the documents made of up to MaxParagraphs of them.
ParagraphLengths == {0, 1, 400, 500, 600, 1200}

ChunkBodies == UNION {[1 .. n -> ParagraphLengths] : n \in 1 .. MaxParagraphs}

\* An initialized engine with an empty index over a vault whose one
\* document, a.md, has any of these bodies.
ChunkInit ==
    /\ vault \in {[p \in Paths |->
                     IF p = "a.md"
                     THEN [exists |-> TRUE, mtime |-> 1, body |-> body]
                     ELSE [exists |-> FALSE, mtime |-> 0, body |-> <<>>]] :
                  body \in ChunkBodies}
    /\ settings = [embeddingModel |-> "model-A",
                   similarityThreshold |-> SimilarityThreshold,
                   maxResults |-> MaxResults,
                   apiKey |-> "key"]
    /\ index = CreateEmptyIndex("model-A")
    /\ persisted = SaveIndex(index)
    /\ isInitialized = TRUE
    /\ watching = TRUE
    /\ pendingFiles = <<>>
    /\ debounceTimer = -1
    /\ isIndexing = FALSE
    /\ batch = [b \in Batches |-> IdleRec]
    /\ search = IdleSearch
    /\ last = [op |-> "initialize", path |-> "", hit |-> FALSE]
    /\ sinceNotify = DebounceDelay
    /\ passCount = 0
    /\ events = 0

\* One indexVault run over that vault.
ChunkNext ==
    \/ \E b \in Runs : StartIndexVault(b)
    \/ \E b \in Runs : CheckUpToDate(b)
    \/ \E b \in Batches : ReadFile(b)
    \/ \E b \in Batches : GotFileVersion(b)
    \/ \E b \in Batches : RemoveSaved(b)
    \/ \E b \in Batches : EmbeddingDone(b)

ChunkSpec == ChunkInit /\ [][ChunkNext]_vars

\* C23: no chunk chunkDocument produces is longer than chunkSize unless it
\* is a single paragraph that is itself longer; two paragraphs whose lengths
\* add up to chunkSize are not joined into a longer chunk.
C23_ChunkWithinSize ==
    \A id \in DOMAIN index.chunks :
        StrLen(index.chunks[id].content) > ChunkSize
        => Len(index.chunks[id].content) = 1

\* ------------------------------------------------------ rename of a document

\* An initialized engine over a vault whose one document, a.md, is indexed
\* and embedded or not indexed yet; the index may still hold b.md, a
\* document that was deleted while the plugin was not loaded.
RenameInit ==
    /\ \E body \in Bodies :
        /\ vault = [p \in Paths |->
                      IF p = "a.md"
                      THEN [exists |-> TRUE, mtime |-> 1, body |-> body]
                      ELSE [exists |-> FALSE, mtime |-> 0, body |-> <<>>]]
        /\ index \in {CreateEmptyIndex("model-A")} \cup
                     {IndexOf(CreateEmptyIndex("model-A"), PathOrder,
                              [p \in Paths |-> IF p = "a.md" THEN body
                                               ELSE gone], TRUE) :
                      gone \in {<<>>, body}}
    /\ settings = [embeddingModel |-> "model-A",
                   similarityThreshold |-> SimilarityThreshold,
                   maxResults |-> MaxResults,
                   apiKey |-> "key"]
    /\ persisted = SaveIndex(index)
    /\ isInitialized = TRUE
    /\ watching = TRUE
    /\ pendingFiles = <<>>
    /\ debounceTimer = -1
    /\ isIndexing = FALSE
    /\ batch = [b \in Batches |-> IdleRec]
    /\ search = IdleSearch
    /\ last = [op |-> "initialize", path |-> "", hit |-> FALSE]
    /\ sinceNotify = DebounceDelay
    /\ passCount = 0
    /\ events = 0

\* The document is renamed and indexVault is run, in any order, and the
\* engine does its work.
RenameNext ==
    \/ \E p \in Paths, q \in Paths : RenameFile(p, q)
    \/ \E b \in Runs : StartIndexVault(b)
    \/ Tick
    \/ TimerFire
    \/ PassChecked
    \/ \E b \in Runs : CheckUpToDate(b)
    \/ \E b \in Runs : PruneSaved(b)
    \/ \E b \in Batches : ReadFile(b)
    \/ \E b \in Batches : GotFileVersion(b)
    \/ \E b \in Batches : RemoveSaved(b)
    \/ \E b \in Batches : EmbeddingDone(b)
    \/ \E b \in Batches : EmbeddingFailed(b)

RenameSpec == RenameInit /\ [][RenameNext]_vars

\* The step that handles the rename of p to q.
RenameHandled(p, q) ==
    /\ events' = events + 1
    /\ last'.op = "rename"
    /\ last'.path = p
    /\ q # p
    /\ vault'[q].exists

\* The pass that took q, the new name of p, as its last path ends with the
\* embedding of q's last chunk attached.
RenamePassDone(p, q) ==
    /\ q # p
    /\ vault[q].exists
    /\ ~vault[p].exists
    /\ batch["pass"].pc = "embedding"
    /\ batch["pass"].queue = <<q>>
    /\ batch'["pass"].pc = "idle"
    /\ index' # index

\* C25: the step that handles a rename from oldPath to newPath removes
\* oldPath's file entry and chunks and puts newPath in the pending set
\* without indexing it; newPath is indexed by a later debounced pass, and
\* when that pass has completed without failure the index holds entries for
\* newPath and none for oldPath.
C25_RenameMovesEntries ==
    [][\A p, q \in Paths :
          /\ RenameHandled(p, q)
             => /\ p \notin DOMAIN index'.files
                /\ ChunkIdsOf(index', p) = {}
                /\ q \in Range(pendingFiles')
                /\ (q \in DOMAIN index'.files) = (q \in DOMAIN index.files)
                /\ ChunkIdsOf(index', q) = ChunkIdsOf(index, q)
          /\ RenamePassDone(p, q)
             => /\ q \in DOMAIN index'.files
                /\ ChunkIdsOf(index', q) # {}
                /\ p \notin DOMAIN index'.files
                /\ ChunkIdsOf(index', p) = {}
      ]_vars

\* ------------------------------------------------ a document indexed again

\* An initialized engine whose index holds an earlier version of a.md and
\* of b.md, embedded or not; a.md has been written since, b.md perhaps.
ReindexInit ==
    /\ \E body \in Bodies, old \in Bodies, embedded \in BOOLEAN,
          other \in {[exists |-> TRUE, mtime |-> 1, body |-> <<400>>]} \cup
                    {[exists |-> TRUE, mtime |-> 2, body |-> bb] :
                        bb \in Bodies} :
        /\ vault = [p \in Paths |->
                      IF p = "a.md"
                      THEN [exists |-> TRUE, mtime |-> 2, body |-> body]
                      ELSE other]
        /\ index = IndexOf(CreateEmptyIndex("model-A"), PathOrder,
                           [p \in Paths |-> IF p = "a.md" THEN old
                                            ELSE <<400>>], embedded)
    /\ settings = [embeddingModel |-> "model-A",
                   similarityThreshold |-> SimilarityThreshold,
                   maxResults |-> MaxResults,
                   apiKey |-> "key"]
    /\ persisted = SaveIndex(index)
    /\ isInitialized = TRUE
    /\ watching = TRUE
    /\ pendingFiles = <<>>
    /\ debounceTimer = -1
    /\ isIndexing = FALSE
    /\ batch = [b \in Batches |-> IdleRec]
    /\ search = IdleSearch
    /\ last = [op |-> "initialize", path |-> "", hit |-> FALSE]
    /\ sinceNotify = DebounceDelay
    /\ passCount = 0
    /\ events = 0

\* indexVault runs, one at a time, with nothing else going on.
ReindexNext ==
    \/ \E b \in Runs : StartIndexVault(b)
    \/ \E b \in Runs : CheckUpToDate(b)
    \/ \E b \in Batches : ReadFile(b)
    \/ \E b \in Batches : GotFileVersion(b)
    \/ \E b \in Batches : RemoveSaved(b)
    \/ \E b \in Batches : EmbeddingDone(b)
    \/ \E b \in Batches : EmbeddingFailed(b)

ReindexSpec == ReindexInit /\ [][ReindexNext]_vars

\* C29: when addFileToIndex(doc, chunks) completes, with no other operation
\* on doc.path in flight, the chunks of doc.path in the index are exactly the
\* incoming chunks (none of the previous ones remains), each carries as its
\* fileVersion files[doc.path], the fingerprint this call computed, and none
\* has an embedding.
C29_AddReplacesWhole ==
    [][\A b \in Batches :
          (batch[b].pc = "removeSave" /\ batch'[b] # batch[b])
          => LET f == Head(batch[b].queue)
                 inc == batch[b].chunks
             IN /\ f \in DOMAIN index'.files
                /\ index'.files[f] = GetFileVersion(f)
                /\ ChunkIdsOf(index', f) = {inc[i].id : i \in DOMAIN inc}
                /\ \A i \in DOMAIN inc :
                     LET c == index'.chunks[inc[i].id]
                     IN /\ c.content = inc[i].content
                        /\ c.chunkIndex = inc[i].chunkIndex
                        /\ c.totalChunks = Len(inc)
                        /\ c.fileVersion = index'.files[f]
                        /\ c.embedding = NoEmbedding
      ]_vars

\* a.md, indexed before with two embedded chunks, has been indexed again
\* with one: the index holds that chunk only, not embedded yet.
C29_Witness ==
    /\ batch["run1"].pc = "embedding"
    /\ Head(batch["run1"].queue) = "a.md"
    /\ persisted[1].files["a.md"].mtime = 2
    /\ ChunkIdsOf(index, "a.md") = {<<"a.md", 0>>}
    /\ index.chunks[<<"a.md", 0>>].embedding = NoEmbedding
    /\ index.stats.totalEmbeddings = 1

\* ------------------------------------------ getOutdatedFiles on its inputs

\* What a document of the vault can be when indexVault is run: missing, as
\* it was indexed, or written since.
VaultDocuments ==
    {[exists |-> FALSE, mtime |-> 0, body |-> <<>>],
     [exists |-> TRUE, mtime |-> 1, body |-> <<400>>],
     [exists |-> TRUE, mtime |-> 2, body |-> <<600, 700>>]}

\* An initialized engine over any such vault, with the index an earlier
\* session left: any of the documents indexed, embedded or not.
OutdatedInit ==
    /\ vault \in [Paths -> VaultDocuments]
    /\ index \in LiveIndexes("model-A")
    /\ settings = [embeddingModel |-> "model-A",
                   similarityThreshold |-> SimilarityThreshold,
                   maxResults |-> MaxResults,
                   apiKey |-> "key"]
    /\ persisted = SaveIndex(index)
    /\ isInitialized = TRUE
    /\ watching = TRUE
    /\ pendingFiles = <<>>
    /\ debounceTimer = -1
    /\ isIndexing = FALSE
    /\ batch = [b \in Batches |-> IdleRec]
    /\ search = IdleSearch
    /\ last = [op |-> "initialize", path |-> "", hit |-> FALSE]
    /\ sinceNotify = DebounceDelay
    /\ passCount = 0
    /\ events = 0

\* indexVault runs, one at a time, with nothing else going on.
OutdatedNext ==
    \/ \E b \in Runs : StartIndexVault(b)
    \/ \E b \in Runs : CheckUpToDate(b)
    \/ \E b \in Runs : PruneSaved(b)
    \/ \E b \in Batches : ReadFile(b)
    \/ \E b \in Batches : GotFileVersion(b)
    \/ \E b \in Batches : RemoveSaved(b)
    \/ \E b \in Batches : EmbeddingDone(b)
    \/ \E b \in Batches : EmbeddingFailed(b)

OutdatedSpec == OutdatedInit /\ [][OutdatedNext]_vars

\* A step of getOutdatedFiles in run b, and the step in which it returns.
InGetOutdated(b) ==
    \/ events' = events + 1 /\ last'.op = "indexVault" /\ batch[b].pc = "idle"
    \/ batch[b].pc \in {"isUpToDate", "pruneSave"} /\ batch'[b] # batch[b]

GetOutdatedReturns(b) ==
    InGetOutdated(b) /\ batch'[b].pc \in {"read", "idle"}

\* The enumerated documents whose stored version is missing or differs from
\* the current one in mtime, size or hash, in enumeration order.
ExpectedOutdated ==
    SelectSeq(MarkdownFiles,
              LAMBDA p : \/ p \notin DOMAIN index.files
                         \/ index.files[p].mtime # vault[p].mtime
                         \/ index.files[p].size # StrLen(vault[p].body)
                         \/ index.files[p].hash # HashContent(vault[p].body))

\* C31: getOutdatedFiles returns exactly the enumerated documents whose
\* stored fingerprint is missing or differs from the fresh one, in
\* enumeration order; when it returns the index holds no file entry and no
\* chunk of a path that is not enumerated; and it leaves the entries of the
\* enumerated paths as they were.
C31_OutdatedAndPruned ==
    [][\A b \in Runs :
          /\ InGetOutdated(b)
             => \A p \in Range(MarkdownFiles) :
                   /\ (p \in DOMAIN index'.files) = (p \in DOMAIN index.files)
                   /\ p \in DOMAIN index.files
                      => index'.files[p] = index.files[p]
                   /\ ChunkIdsOf(index', p) = ChunkIdsOf(index, p)
                   /\ \A id \in ChunkIdsOf(index, p) :
                         index'.chunks[id] = index.chunks[id]
          /\ GetOutdatedReturns(b)
             => /\ batch'[b].queue = ExpectedOutdated
                /\ \A p \in Paths \ Range(MarkdownFiles) :
                      /\ p \notin DOMAIN index'.files
                      /\ ChunkIdsOf(index', p) = {}
      ]_vars

\* getOutdatedFiles has removed an indexed path that is not in the vault and
\* has returned the one document of the vault as outdated.
C31_Witness ==
    /\ batch["run1"].pc = "read"
    /\ batch["run1"].queue = MarkdownFiles
    /\ Len(MarkdownFiles) = 1
    /\ last.op = "step"
    /\ events = 1
    /\ \A p \in Paths \ Range(MarkdownFiles) : p \notin DOMAIN index.files

\* C35: the k-th chunk chunkDocument produces (k from 0) has the id
\* "<path>:k" and chunkIndex k, every chunk of the document reports as
\* totalChunks the number of chunks produced, and a document with no
\* non-blank paragraph produces no chunk.
C35_ChunkIdentity ==
    \A b \in Batches :
        batch[b].pc = "fileVersion"
        => LET f == Head(batch[b].queue)
               cs == batch[b].chunks
           IN /\ \A i \in DOMAIN cs :
                    /\ cs[i].id = <<f, i - 1>>
                    /\ cs[i].chunkIndex = i - 1
                    /\ cs[i].totalChunks = Len(cs)
              /\ (\A i \in DOMAIN vault[f].body : vault[f].body[i] = 0)
                 => cs = <<>>

\* A document with a blank paragraph between two long ones has been chunked
\* into two chunks.
C35_Witness ==
    /\ batch["run1"].pc = "fileVersion"
    /\ Len(batch["run1"].chunks) = 2
    /\ vault["a.md"].body[2] = 0
    /\ Len(vault["a.md"].body) = 3


\* ------------------------------------------- indexVault with nothing failing
\* indexVault over a vault and an index of any kind, with a provider that
\* answers every embedding call, no document change and no other operation.
CompleteRunInit == OutdatedInit

CompleteRunNext ==
    \/ \E b \in Runs : StartIndexVault(b)
    \/ \E b \in Runs : CheckUpToDate(b)
    \/ \E b \in Runs : PruneSaved(b)
    \/ \E b \in Runs : ReadFile(b)
    \/ \E b \in Runs : GotFileVersion(b)
    \/ \E b \in Runs : RemoveSaved(b)
    \/ \E b \in Runs : EmbeddingDone(b)

CompleteRunSpec == CompleteRunInit /\ [][CompleteRunNext]_vars

\* An indexVault run has finished.
RunFinished ==
    events >= 1 /\ \A b \in Runs : batch[b].pc = "idle"

\* C40: when an indexVault run finishes with a configured provider, no failed
\* document and no change or other operation during the run, the keys of
\* files are exactly the enumerated documents, every one of them is up to
\* date by isFileUpToDate, and every chunk in the index has an embedding.
C40_RunLeavesIndexComplete ==
    RunFinished
    => /\ DOMAIN index.files = {p \in Paths : vault[p].exists}
       /\ \A p \in DOMAIN index.files :
             IsFileUpToDate(index, GetFileVersion(p))
       /\ \A id \in DOMAIN index.chunks :
             index.chunks[id].embedding # NoEmbedding

\* The first two parts of C40 alone: the keys of files and their freshness.
C40_KeysAndFreshness ==
    RunFinished
    => /\ DOMAIN index.files = {p \in Paths : vault[p].exists}
       /\ \A p \in DOMAIN index.files :
             IsFileUpToDate(index, GetFileVersion(p))

====
